---- MODULE Spec2Model ----
(***************************************************************************)
(* libfq: transaction / statement lifecycle and tuple assembly of the      *)
(* execute calls (FQexec, FQexecParams, FQexecTransaction) over one        *)
(* connection, the result accessors, FQclear and FQfinish (Spec); the      *)
(* scaled-integer and RDB$DB_KEY codecs on their own (CodecSpec).          *)
(*                                                                         *)
(* The Firebird engine is the environment.  Each execute call draws the    *)
(* engine's answers (which primitive fails, the rows it yields) from       *)
(* bounded sets.  The engine's transaction primitives reject an invalid    *)
(* handle (start on a non-null handle, commit/rollback on a null handle)   *)
(* and succeed otherwise.                                                  *)
(***************************************************************************)
EXTENDS Integers, Sequences, FiniteSets, TLC

(***************************************************************************)
(* Bounds                                                                  *)
(***************************************************************************)
MaxCols == 2
MaxRows == 3
MaxParams == 1
\* codec inputs: fractional digits of a parameter text, digits of a scale
MaxFrac == 3
MaxScale == 2
\* executions of one prepared statement
MaxExecs == 2
\* string buffer: the largest block the allocator grants
MaxAlloc == 1024
\* string buffer: the number of operations after initFQExpBuffer
MaxOps == 3

(***************************************************************************)
(* Program constants                                                       *)
(***************************************************************************)
FBRES_NO_ACTION == 0
FBRES_EMPTY_QUERY == 1
FBRES_COMMAND_OK == 2
FBRES_TUPLES_OK == 3
FBRES_TRANSACTION_START == 4
FBRES_TRANSACTION_COMMIT == 5
FBRES_TRANSACTION_ROLLBACK == 6
FBRES_BAD_RESPONSE == 7
FBRES_NONFATAL_ERROR == 8
FBRES_FATAL_ERROR == 9

FB_XSQLDA_INITLEN == 15

\* statement types reported by isc_dsql_sql_info
isc_info_sql_stmt_select == "select"
isc_info_sql_stmt_insert == "insert"
isc_info_sql_stmt_ddl == "ddl"
isc_info_sql_stmt_exec_procedure == "exec_procedure"
isc_info_sql_stmt_start_trans == "start_trans"
isc_info_sql_stmt_commit == "commit"
isc_info_sql_stmt_rollback == "rollback"

\* column type codes (flag bit dropped; nullability is the field "nullable")
SQL_TEXT == "SQL_TEXT"
SQL_SHORT == "SQL_SHORT"
SQL_LONG == "SQL_LONG"
SQL_INT64 == "SQL_INT64"
SQL_UNHANDLED == "SQL_ARRAY"
SQL_BLOB == "SQL_BLOB"
SQL_INVALID_TYPE == "SQL_INVALID_TYPE"

(***************************************************************************)
(* C strings: a char pointer is NULL or points to a sequence of chars      *)
(***************************************************************************)
NULLPTR == [null |-> TRUE, s |-> <<>>]
Str(s) == [null |-> FALSE, s |-> s]

Min(a, b) == IF a < b THEN a ELSE b

\* C integer division and remainder truncate toward zero
CDiv(a, b) == IF a >= 0 THEN a \div b ELSE -((-a) \div b)
CMod(a, b) == a - b * CDiv(a, b)

DigitChar(d) == <<"0", "1", "2", "3", "4", "5", "6", "7", "8", "9">>[d + 1]

RECURSIVE NatToStr(_)
NatToStr(n) == IF n < 10 THEN <<DigitChar(n)>>
               ELSE NatToStr(n \div 10) \o <<DigitChar(n % 10)>>

\* printf "%lld"
FmtLld(v) == IF v < 0 THEN <<"-">> \o NatToStr(-v) ELSE NatToStr(v)

RECURSIVE Zeros(_)
Zeros(n) == IF n <= 0 THEN <<>> ELSE <<"0">> \o Zeros(n - 1)

\* printf "%0*lld" with a non-negative argument
FmtZeroPad(w, v) == Zeros(w - Len(FmtLld(v))) \o FmtLld(v)

RECURSIVE Pow10(_)
Pow10(n) == IF n <= 0 THEN 1 ELSE 10 * Pow10(n - 1)

(***************************************************************************)
(* Connection: the fields of FBconn the lifecycle controller reads/writes  *)
(* together with the engine's view of the attachment (active_tx: number of *)
(* transactions open in the engine; log: the transaction primitives issued *)
(* by the current call, each tagged with the source line issuing it).      *)
(***************************************************************************)
Handle(c, which) == IF which = "trans" THEN c.trans ELSE c.trans_internal

SetHandle(c, which, v) ==
    IF which = "trans" THEN [c EXCEPT !.trans = v]
                       ELSE [c EXCEPT !.trans_internal = v]

LogEntry(op, which, line, ok) == [op |-> op, h |-> which, line |-> line, ok |-> ok]

\* isc_start_transaction creates a transaction only through a null handle
_FQstartTransaction(c, which, line) ==
    IF Handle(c, which) # 0
    THEN [c EXCEPT !.log = Append(@, LogEntry("start", which, line, FALSE))]
    ELSE [SetHandle(c, which, 1) EXCEPT
             !.active_tx = @ + 1,
             !.log = Append(@, LogEntry("start", which, line, TRUE))]

\* slip: the handle is left set after a successful commit
_FQcommitTransaction_KeepsHandle(c, which, line) ==
    IF Handle(c, which) = 0
    THEN [c EXCEPT !.log = Append(@, LogEntry("commit", which, line, FALSE))]
    ELSE [c EXCEPT !.active_tx = @ - 1,
                   !.log = Append(@, LogEntry("commit", which, line, TRUE))]

\* isc_commit_transaction fails on a null handle; on success the handle is zeroed
_FQcommitTransaction(c, which, line) ==
    IF Handle(c, which) = 0
    THEN [c EXCEPT !.log = Append(@, LogEntry("commit", which, line, FALSE))]
    ELSE [SetHandle(c, which, 0) EXCEPT
             !.active_tx = @ - 1,
             !.log = Append(@, LogEntry("commit", which, line, TRUE))]

_FQrollbackTransaction(c, which, line) ==
    IF Handle(c, which) = 0
    THEN [c EXCEPT !.log = Append(@, LogEntry("rollback", which, line, FALSE))]
    ELSE [SetHandle(c, which, 0) EXCEPT
             !.active_tx = @ - 1,
             !.log = Append(@, LogEntry("rollback", which, line, TRUE))]

FQisActiveTransaction(c) == c.in_user_transaction

\* slip: the explicit-transaction flag is not consulted
AutocommitGoverns_IgnoresFlag(c) == c.autocommit = TRUE

\* "if autocommit, and no explicit transaction set"
AutocommitGoverns(c) == c.autocommit = TRUE /\ c.in_user_transaction = FALSE

(***************************************************************************)
(* Descriptor arrays (XSQLDA).  sqlvar holds the slots the engine has      *)
(* described; sqldata / sqlind record whether the slot's native buffers    *)
(* are allocated.                                                          *)
(***************************************************************************)
NULLDA == [null |-> TRUE, addr |-> 0, sqln |-> 0, sqld |-> 0, sqlvar |-> <<>>]

\* a zeroed array of n slots at address addr
NewSqlDa(n, addr) == [null |-> FALSE, addr |-> addr, sqln |-> n, sqld |-> 0, sqlvar |-> <<>>]

\* malloc of a descriptor array for the field which ("sqlda_in" / "sqlda_out");
\* brk is the next unused address
MallocSqlDa(r, which, n) ==
    [r EXCEPT ![which] = NewSqlDa(n, r.brk), !.brk = r.brk + 1]

\* the slot buffers (data buffer, null indicator) allocated in the array
HeldSlots(sqlda) ==
    {<<i, "sqldata">> : i \in {k \in DOMAIN sqlda.sqlvar : sqlda.sqlvar[k].sqldata}}
    \cup {<<i, "sqlind">> : i \in {k \in DOMAIN sqlda.sqlvar : sqlda.sqlvar[k].sqlind}}

\* free() of the array the field points to; freed lists the addresses freed so
\* far, released the arrays as they were when freed (held: the slot buffers
\* still allocated, which nothing points to any more)
FreeSqlDa(r, which) ==
    [r EXCEPT !.freed = Append(r.freed, r[which].addr),
              !.released = Append(r.released, [which |-> which, sqln |-> r[which].sqln,
                                               sqld |-> r[which].sqld,
                                               held |-> HeldSlots(r[which])])]

XSqlVar(col) == [sqltype |-> col.sqltype, nullable |-> col.nullable,
                 sqlscale |-> col.sqlscale, sqlname |-> col.sqlname,
                 aliasname |-> col.aliasname, relname |-> col.relname,
                 sqldata |-> FALSE, sqlind |-> FALSE]

\* isc_dsql_describe / isc_dsql_describe_bind / isc_dsql_prepare: the engine
\* stores the true count in sqld and fills at most sqln slots
Describe(sqlda, cols) ==
    [sqlda EXCEPT !.sqld = Len(cols),
                  !.sqlvar = [i \in 1..Min(sqlda.sqln, Len(cols)) |-> XSqlVar(cols[i])]]

\* pointers not set by _FQinitResult hold whatever malloc returned
UNINIT == -1

_FQinitResultSqlDa(r, init_sqlda_in) ==
    MallocSqlDa(IF init_sqlda_in
                THEN MallocSqlDa(r, "sqlda_in", FB_XSQLDA_INITLEN)
                ELSE [r EXCEPT !.sqlda_in = NULLDA],
                "sqlda_out", FB_XSQLDA_INITLEN)

_FQinitResult(init_sqlda_in) ==
    _FQinitResultSqlDa(
        [stmt_handle |-> 0, statement_type |-> "none", ntups |-> -1, ncols |-> -1,
         resultStatus |-> FBRES_NO_ACTION,
         sqlda_in |-> NULLDA, sqlda_out |-> NULLDA,
         errMsg |-> 0, errMsg_lost |-> 0, errFields |-> <<>>,
         header_ptr |-> UNINIT, header |-> <<>>, heap |-> <<>>,
         tuple_first |-> UNINIT, tuple_last |-> UNINIT,
         tuples_ptr |-> UNINIT, tuples |-> <<>>,
         brk |-> 1, freed |-> <<>>, released |-> <<>>, issued |-> <<>>],
        init_sqlda_in)

\* prepends one diagnostic field to errFields
_FQsaveMessageField(r, code) == [r EXCEPT !.errFields = <<code>> \o r.errFields]

\* the engine's status vector is interpreted into a message type and a
\* primary message; errMsg is allocated anew (a previous one is not freed)
_FQsetResultError(r) ==
    [r EXCEPT !.errFields = <<"FB_DIAG_MESSAGE_PRIMARY", "FB_DIAG_MESSAGE_TYPE">> \o r.errFields,
              !.errMsg = 1,
              !.errMsg_lost = r.errMsg_lost + r.errMsg]

\* the error block of every failing path: debug field, engine diagnostics,
\* status fatal-error
Fatal(r) ==
    [_FQsetResultError(_FQsaveMessageField(r, "FB_DIAG_DEBUG"))
        EXCEPT !.resultStatus = FBRES_FATAL_ERROR]

\* the statement-level engine primitive step is called for the result's
\* statement (the fetch loop is one entry)
Issue(r, step) == [r EXCEPT !.issued = Append(r.issued, step)]

\* frees the native buffers of the first ncols slots of sqlda_out,
\* whichever array it is called for
_FQexecClearSQLDA(r, sqlda) ==
    LET vars == r.sqlda_out.sqlvar
    IN [r EXCEPT !.sqlda_out.sqlvar =
          [i \in 1..Len(vars) |->
              IF i <= r.ncols
              THEN [vars[i] EXCEPT !.sqldata = FALSE, !.sqlind = FALSE]
              ELSE vars[i]]]

\* the block of _FQexecClearResult for one array
ClearOne(r, which) ==
    IF ~r[which].null
    THEN [FreeSqlDa(_FQexecClearSQLDA(r, r[which]), which) EXCEPT ![which] = NULLDA]
    ELSE r

\* slip: the freed arrays are not recorded as absent
_FQexecClearResult_KeepsPointers(r) ==
    LET FreeOne(x, which) ==
            IF ~x[which].null
            THEN FreeSqlDa(_FQexecClearSQLDA(x, x[which]), which)
            ELSE x
    IN FreeOne(FreeOne(r, "sqlda_in"), "sqlda_out")

_FQexecClearResult(r) == ClearOne(ClearOne(r, "sqlda_in"), "sqlda_out")

HandledOutputTypes == {SQL_TEXT, SQL_SHORT, SQL_LONG, SQL_INT64}

\* index of the first slot (below ncols) whose type the switch does not handle, or 0
FirstUnhandled(vars, n) ==
    LET bad == {i \in 1..Min(n, Len(vars)) : vars[i].sqltype \notin HandledOutputTypes}
    IN IF bad = {} THEN 0 ELSE CHOOSE i \in bad : \A j \in bad : i <= j

_FQexecInitOutputSQLDA(r) ==
    LET vars == r.sqlda_out.sqlvar
        k == FirstUnhandled(vars, r.ncols)
        upto == IF k = 0 THEN r.ncols ELSE k - 1
        filled == [r EXCEPT !.sqlda_out.sqlvar =
                     [i \in 1..Len(vars) |->
                         IF i <= upto
                         THEN [vars[i] EXCEPT !.sqldata = TRUE,
                                              !.sqlind = vars[i].nullable]
                         ELSE vars[i]]]
    IN IF k = 0 THEN filled
       ELSE _FQexecClearResult(Fatal(filled))

(***************************************************************************)
(* Output decode.  A fetched cell is [sqlind, sqldata, snprintf_fails]:    *)
(* the null indicator, the native value (an integer, or the chars of a     *)
(* fixed-length text) and whether snprintf reports an error for it.        *)
(***************************************************************************)
FieldWidth(datatype) ==
    CASE datatype = SQL_SHORT -> 6
      [] datatype = SQL_LONG -> 11
      [] OTHER -> 21

Truncate(s, n) == SubSeq(s, 1, Min(Len(s), n))

FormatScaledInt(datatype, dscale, cell) ==
    LET value == cell.sqldata
        buflen == FieldWidth(datatype) - 1 + dscale + 1
        tens == Pow10(-dscale)
    IN IF dscale < 0
       THEN IF value >= 0
            THEN Str(FmtLld(CDiv(value, tens)) \o <<".">> \o FmtZeroPad(-dscale, CMod(value, tens)))
            ELSE IF cell.snprintf_fails
                 THEN NULLPTR
                 ELSE IF CDiv(value, tens) # 0
                      THEN Str(Truncate(FmtLld(CDiv(value, tens)) \o <<".">>
                                        \o FmtZeroPad(-dscale, -CMod(value, tens)), buflen - 1))
                      ELSE Str(Truncate(<<"-", "0", ".">>
                                        \o FmtZeroPad(-dscale, -CMod(value, tens)), buflen - 1))
       ELSE IF dscale # 0
            THEN Str(FmtLld(value) \o FmtZeroPad(dscale, 0))
            ELSE Str(FmtLld(value))

UnhandledDatatypeText == <<"U", "n", "h", "a", "n", "d", "l", "e", "d">>
ErrorFormattingText == <<"E", "r", "r", "o", "r">>

\* the tuple attribute holding the text p
TupleAtt(p) == [value |-> p, len |-> Len(p.s), dsplen |-> Len(p.s),
                dsplen_line |-> Len(p.s), has_null |-> FALSE]

\* slip: no fallback text when formatting produced nothing
_FQformatDatum_NoFallback(att_desc, var, cell) ==
    IF var.nullable /\ cell.sqlind < 0
    THEN [value |-> NULLPTR, len |-> 0, dsplen |-> 0, dsplen_line |-> 0, has_null |-> TRUE]
    ELSE LET datatype == att_desc.type
         IN TupleAtt(CASE datatype = SQL_TEXT -> Str(cell.sqldata)
                       [] datatype \in {SQL_SHORT, SQL_LONG, SQL_INT64} ->
                              FormatScaledInt(datatype, var.sqlscale, cell)
                       [] OTHER -> Str(UnhandledDatatypeText))

_FQformatDatum(att_desc, var, cell) ==
    IF var.nullable /\ cell.sqlind < 0
    THEN [value |-> NULLPTR, len |-> 0, dsplen |-> 0, dsplen_line |-> 0, has_null |-> TRUE]
    ELSE LET datatype == att_desc.type
             \* "We weren't able to format the Datum due to an error"
             Fallback(p) == IF p.null THEN Str(ErrorFormattingText) ELSE p
         IN TupleAtt(Fallback(
                CASE datatype = SQL_TEXT -> Str(cell.sqldata)
                  [] datatype \in {SQL_SHORT, SQL_LONG, SQL_INT64} ->
                         FormatScaledInt(datatype, var.sqlscale, cell)
                  [] OTHER -> Str(UnhandledDatatypeText)))

(***************************************************************************)
(* Parameter binder, scaled integers (SQL_SHORT, SQL_LONG, SQL_INT64): the *)
(* text is read with sscanf and scaled by the slot's sqlscale.  A text is  *)
(* a sequence of chars.  White space, which sscanf would skip, does not    *)
(* occur in the texts of the model.                                        *)
(***************************************************************************)
IsDigit(ch) == ch \in {"0", "1", "2", "3", "4", "5", "6", "7", "8", "9"}

DigitVal(ch) == CHOOSE d \in 0..9 : DigitChar(d) = ch

\* index of the first occurrence of ch in s, 0 when there is none (strchr)
strchr(s, ch) ==
    IF \E i \in 1..Len(s) : s[i] = ch
    THEN CHOOSE i \in 1..Len(s) : s[i] = ch /\ \A j \in 1..(i - 1) : s[j] # ch
    ELSE 0

\* the digits one conversion consumes from position pos, at most width chars
RECURSIVE ScanDigits(_, _, _, _, _)
ScanDigits(s, pos, width, val, n) ==
    IF width > 0 /\ pos <= Len(s) /\ IsDigit(s[pos])
    THEN ScanDigits(s, pos + 1, width - 1, val * 10 + DigitVal(s[pos]), n + 1)
    ELSE [val |-> val, n |-> n, pos |-> pos]

\* one "%<width>ld" conversion at position pos: an optional sign, which
\* counts in the width, then digits
ScanLd(s, pos, width) ==
    IF pos > Len(s)
    THEN [status |-> "eof", val |-> 0, pos |-> pos]
    ELSE LET Signed(d) ==
                 IF d.n = 0 THEN [status |-> "fail", val |-> 0, pos |-> pos]
                 ELSE [status |-> "ok", val |-> IF s[pos] = "-" THEN 0 - d.val ELSE d.val,
                       pos |-> d.pos]
             Unsigned(d) ==
                 IF d.n = 0 THEN [status |-> "fail", val |-> 0, pos |-> pos]
                 ELSE [status |-> "ok", val |-> d.val, pos |-> d.pos]
         IN IF s[pos] \in {"-", "+"}
            THEN Signed(ScanDigits(s, pos + 1, width - 1, 0, 0))
            ELSE Unsigned(ScanDigits(s, pos, width, 0, 0))

\* the conversions "%<w>ld" for the widths w in turn, from position pos:
\* the values assigned, until one conversion does not match
RECURSIVE ScanFields(_, _, _)
ScanFields(s, pos, widths) ==
    IF widths = <<>> THEN <<>>
    ELSE LET Rest(c) == IF c.status = "ok"
                        THEN <<c.val>> \o ScanFields(s, c.pos, Tail(widths))
                        ELSE <<>>
         IN Rest(ScanLd(s, pos, Head(widths)))

\* sscanf's return value for input failure before the first conversion
EOF == -1

\* sscanf(s, "%ld.%<w1>ld%<w2>ld..."): ret is the return value, vals the
\* values assigned to the arguments in order
SscanfInt(s, widths) ==
    LET First(c) ==
            IF c.status = "eof" THEN [ret |-> EOF, vals |-> <<>>]
            ELSE IF c.status = "fail" THEN [ret |-> 0, vals |-> <<>>]
            ELSE IF c.pos > Len(s) \/ s[c.pos] # "."
            THEN [ret |-> 1, vals |-> <<c.val>>]
            ELSE [ret |-> 1 + Len(ScanFields(s, c.pos + 1, widths)),
                  vals |-> <<c.val>> \o ScanFields(s, c.pos + 1, widths)]
    IN First(ScanLd(s, 1, Len(s) + 1))

\* sscanf(s, ".%<w1>ld%<w2>ld...")
SscanfDec(s, widths) ==
    IF s = <<>> THEN [ret |-> EOF, vals |-> <<>>]
    ELSE IF s[1] # "." THEN [ret |-> 0, vals |-> <<>>]
    ELSE IF Len(s) = 1 THEN [ret |-> EOF, vals |-> <<>>]
    ELSE [ret |-> Len(ScanFields(s, 2, widths)), vals |-> ScanFields(s, 2, widths)]

\* the k-th argument after the call: the value assigned, or the 0 it held
Arg(vals, k) == IF k <= Len(vals) THEN vals[k] ELSE 0

\* the store into the slot: (ISC_SHORT) result keeps 16 bits.  ISC_LONG and
\* ISC_INT64 hold every result the texts of the model produce.
Narrow(dtype, result) ==
    IF dtype = SQL_SHORT THEN ((result + 32768) % 65536) - 32768 ELSE result

\* sqlscale < 0: p, q, r are the integer part, the fraction read to the
\* scale's width and the digit after it
ScaleDecimal(sqlscale, svalue, neg, p, q, r) ==
    LET scale == Pow10(0 - sqlscale)
        q1 == IF r >= 5 THEN q + 1 ELSE q
        p1 == IF r >= 5 THEN p + CDiv(q1, scale) ELSE p
        q2 == IF r >= 5 THEN CMod(q1, scale) ELSE q
        tmp == strchr(svalue, ".")
        dscale == IF tmp # 0
                  THEN (0 - sqlscale) - (Len(svalue) - (tmp - 1)) + 1
                  ELSE 0
    IN (p1 * scale + q2 * Pow10(dscale)) * (IF neg # 0 THEN -1 ELSE 1)

BindDecimal(sqlscale, paramValue) ==
    LET neg == strchr(paramValue, "-")
        \* "negative -0.x hack": the text is read from behind the minus sign
        svalue == IF neg # 0 THEN SubSeq(paramValue, neg + 1, Len(paramValue))
                  ELSE paramValue
        widths == <<0 - sqlscale, 1>>
        Scaled(first, second) ==
            IF first.ret = 0
            THEN ScaleDecimal(sqlscale, svalue, neg, 0,
                              Arg(second.vals, 1), Arg(second.vals, 2))
            ELSE ScaleDecimal(sqlscale, svalue, neg, Arg(first.vals, 1),
                              Arg(first.vals, 2), Arg(first.vals, 3))
    IN Scaled(SscanfInt(svalue, widths), SscanfDec(svalue, widths))

\* "numeric(?,0): scan for one decimal and do rounding"
RoundNoScale(svalue, p, r) ==
    IF r >= 5
    THEN (IF p < 0 THEN p - 1 ELSE p + 1)
    ELSE p

BindNoScale(svalue) ==
    LET Rounded(first, second) ==
            IF first.ret = 0
            THEN RoundNoScale(svalue, 0, Arg(second.vals, 1))
            ELSE RoundNoScale(svalue, Arg(first.vals, 1), Arg(first.vals, 2))
    IN Rounded(SscanfInt(svalue, <<1>>), SscanfDec(svalue, <<1>>))

\* case SQL_SHORT / SQL_LONG / SQL_INT64 of the bind loop: the integer
\* stored in var->sqldata
BindScaledInt(dtype, sqlscale, paramValue) ==
    Narrow(dtype, IF sqlscale < 0
                  THEN BindDecimal(sqlscale, paramValue)
                  ELSE BindNoScale(paramValue))

\* _FQformatDatum writes the text of a value >= 0 with sprintf into
\* malloc(buflen): the text and its terminator need more than buflen bytes
FormatOverruns(datatype, dscale, cell) ==
    /\ dscale < 0
    /\ cell.sqldata >= 0
    /\ Len(FormatScaledInt(datatype, dscale, cell).s) + 1
          > FieldWidth(datatype) - 1 + dscale + 1

(***************************************************************************)
(* RDB$DB_KEY: 8 raw bytes (0..255) and their 16 hexadecimal chars.        *)
(***************************************************************************)
FB_DB_KEY_LEN == 16

HexDigits == <<"0", "1", "2", "3", "4", "5", "6", "7", "8", "9",
               "A", "B", "C", "D", "E", "F">>

\* sprintf(d, "%02X", (unsigned char) *t)
Fmt02X(t) == <<HexDigits[((t % 256) \div 16) + 1], HexDigits[(t % 16) + 1]>>

RECURSIVE _FQparseDbKeyFrom(_, _)
_FQparseDbKeyFrom(db_key, t) ==
    IF t > 8 THEN <<>>
    ELSE Fmt02X(db_key[t]) \o _FQparseDbKeyFrom(db_key, t + 1)

_FQparseDbKey(db_key) == _FQparseDbKeyFrom(db_key, 1)

IsHex(ch) == \E d \in 1..16 : HexDigits[d] = ch

HexVal(ch) == (CHOOSE d \in 1..16 : HexDigits[d] = ch) - 1

\* sscanf(buf, "%02X", ...) on the two chars of buf (the chars the model
\* passes are 0-9 and A-F): the return value and the number read
Sscanf02X(buf) ==
    IF ~IsHex(buf[1]) THEN [ret |-> 0, val |-> 0]
    ELSE IF ~IsHex(buf[2]) THEN [ret |-> 1, val |-> HexVal(buf[1])]
    ELSE [ret |-> 1, val |-> HexVal(buf[1]) * 16 + HexVal(buf[2])]

\* slip: the unsigned int is stored most significant byte first
StoreUnsignedInt_BigEndian(mem, outptr, val) ==
    [a \in DOMAIN mem |->
        IF a \in outptr..(outptr + 3)
        THEN (IF a = outptr + 3 THEN val % 256 ELSE 0)
        ELSE mem[a]]

\* sscanf stores an unsigned int through (unsigned int *) outptr: four
\* bytes from offset outptr on, least significant byte first (the byte
\* order of the x86-64 build, which also performs the unaligned store)
StoreUnsignedInt(mem, outptr, val) ==
    [a \in DOMAIN mem |->
        IF a \in outptr..(outptr + 3)
        THEN (IF a = outptr THEN val % 256 ELSE 0)
        ELSE mem[a]]

\* the loop of _FQdeparseDbKey from input offset inptr on; outptr advances
\* only when the conversion succeeded
RECURSIVE _FQdeparseDbKeyFrom(_, _, _, _)
_FQdeparseDbKeyFrom(db_key, inptr, mem, outptr) ==
    IF inptr >= FB_DB_KEY_LEN THEN mem
    ELSE LET Stored(c) ==
                 IF c.ret = 1
                 THEN _FQdeparseDbKeyFrom(db_key, inptr + 2,
                          StoreUnsignedInt(mem, outptr, c.val), outptr + 1)
                 ELSE _FQdeparseDbKeyFrom(db_key, inptr + 2, mem, outptr)
         IN Stored(Sscanf02X(<<db_key[inptr + 1], db_key[inptr + 2]>>))

\* the malloc(64) buffer returned, offsets 0..63; UNINIT marks a byte that
\* was never written
_FQdeparseDbKey(db_key) ==
    _FQdeparseDbKeyFrom(db_key, 0, [a \in 0..63 |-> UNINIT], 0)

\* the 8 bytes _FQexecParams copies into var->sqldata
DbKeyParam(deparsed) == [ix \in 1..8 |-> deparsed[ix - 1]]

(***************************************************************************)
(* Tuple assembly.  heap[a] is the FQresTuple allocated at address a; next *)
(* is the address of the following tuple or 0.                             *)
(***************************************************************************)
\* the descriptor built from the described slot var1; alias is kept only
\* when it differs from the column name, relname only when it is set
NewDesc(var1) ==
    [desc |-> Str(var1.sqlname), desc_dsplen |-> Len(var1.sqlname),
     alias_len |-> IF var1.aliasname = var1.sqlname THEN 0 ELSE Len(var1.aliasname),
     alias |-> IF var1.aliasname = var1.sqlname THEN NULLPTR ELSE Str(var1.aliasname),
     alias_dsplen |-> IF var1.aliasname = var1.sqlname THEN UNINIT ELSE Len(var1.aliasname),
     relname |-> IF Len(var1.relname) # 0 THEN Str(var1.relname) ELSE NULLPTR,
     type |-> var1.sqltype, has_null |-> FALSE,
     att_max_len |-> 0, att_max_line_len |-> 0]

NewHeader(r) == [i \in 1..r.ncols |-> NewDesc(r.sqlda_out.sqlvar[i])]

\* "store header information": the column's descriptor after the cell att
UpdateHeader(desc, att) ==
    IF att.value.null
    THEN [desc EXCEPT !.has_null = TRUE]
    ELSE [desc EXCEPT !.att_max_len = IF att.dsplen > desc.att_max_len
                                      THEN att.dsplen ELSE desc.att_max_len,
                      !.att_max_line_len = IF att.dsplen_line > desc.att_max_line_len
                                           THEN att.dsplen_line
                                           ELSE desc.att_max_line_len]

\* links the tuple holding atts to the end of the list
LinkTuple(r, hdr, num_rows, atts) ==
    LET addr == Len(r.heap) + 1
        heap1 == Append(r.heap, [position |-> num_rows, values |-> atts, next |-> 0])
    IN [r EXCEPT !.header = [i \in 1..r.ncols |-> UpdateHeader(hdr[i], atts[i])],
                 !.heap = IF r.tuple_first = 0 THEN heap1
                          ELSE [heap1 EXCEPT ![r.tuple_last].next = addr],
                 !.tuple_first = IF r.tuple_first = 0 THEN addr ELSE r.tuple_first,
                 !.tuple_last = addr]

StoreTuple(r, hdr, num_rows, row) ==
    LinkTuple(r, hdr, num_rows,
              [i \in 1..r.ncols |-> _FQformatDatum(hdr[i], r.sqlda_out.sqlvar[i], row[i])])

_FQstoreResult(r, num_rows, row) ==
    StoreTuple(r, IF num_rows = 0 THEN NewHeader(r) ELSE r.header, num_rows, row)

\* the first n addresses reached from ptr through the next links
RECURSIVE WalkTuples(_, _, _)
WalkTuples(heap, ptr, n) ==
    IF n <= 0 THEN <<>>
    ELSE IF ptr \in 1..Len(heap)
         THEN <<ptr>> \o WalkTuples(heap, heap[ptr].next, n - 1)
         ELSE <<ptr>> \o WalkTuples(heap, UNINIT, n - 1)

\* slip: the walk does not advance along the list
_FQexecFillTuplesArray_NoAdvance(r) ==
    [r EXCEPT !.tuples_ptr = 1, !.tuples = [i \in 1..r.ntups |-> r.tuple_first]]

_FQexecFillTuplesArray(r) ==
    [r EXCEPT !.tuples_ptr = 1, !.tuples = WalkTuples(r.heap, r.tuple_first, r.ntups)]

RECURSIVE StoreRows(_, _, _)
StoreRows(r, rows, num_rows) ==
    IF num_rows >= Len(rows) THEN r
    ELSE StoreRows(_FQstoreResult(r, num_rows, rows[num_rows + 1]), rows, num_rows + 1)

(***************************************************************************)
(* Result accessors.  Row and column numbers start at 0.                   *)
(***************************************************************************)
NULLRES == [null |-> TRUE]

FQresultStatus(r) == IF r = NULLRES THEN FBRES_FATAL_ERROR ELSE r.resultStatus

FQntuples(r) == IF r = NULLRES THEN -1 ELSE r.ntups

FQnfields(r) == IF r = NULLRES THEN -1 ELSE r.ncols

\* slip: the upper bounds are tested with > instead of >=
check_tuple_field_number_OffByOne(r, row_number, column_number) ==
    /\ r # NULLRES
    /\ ~(row_number < 0 \/ row_number > r.ntups)
    /\ ~(column_number < 0 \/ column_number > r.ncols)

check_tuple_field_number(r, row_number, column_number) ==
    /\ r # NULLRES
    /\ ~(row_number < 0 \/ row_number >= r.ntups)
    /\ ~(column_number < 0 \/ column_number >= r.ncols)

\* the column test the per-column accessors make after the NULL test
ColumnInRange(r, column_number) ==
    ~(column_number < 0 \/ column_number >= r.ncols)

\* what a read outside the result's tuple / descriptor storage yields
GarbageAtt == [value |-> Str(<<"?">>), len |-> UNINIT, dsplen |-> UNINIT,
               dsplen_line |-> UNINIT, has_null |-> UNINIT]
GarbageDesc == [desc |-> Str(<<"?">>), desc_dsplen |-> UNINIT, alias_len |-> 0,
                alias |-> NULLPTR, alias_dsplen |-> UNINIT, relname |-> NULLPTR,
                type |-> "garbage", has_null |-> UNINIT,
                att_max_len |-> UNINIT, att_max_line_len |-> UNINIT]

\* res->tuples[row_number]
TupleAt(r, row_number) == r.heap[r.tuples[row_number + 1]]

\* res->tuples[row_number]->values[column_number]
AttAt(r, row_number, column_number) ==
    IF /\ row_number + 1 \in DOMAIN r.tuples
       /\ r.tuples[row_number + 1] \in DOMAIN r.heap
       /\ column_number + 1 \in DOMAIN r.heap[r.tuples[row_number + 1]].values
    THEN r.heap[r.tuples[row_number + 1]].values[column_number + 1]
    ELSE GarbageAtt

\* res->header[column_number]; header_ptr is unset (UNINIT) until the fetch
\* path allocates the array, and an unset pointer leads outside the storage
HeaderAt(r, column_number) ==
    IF column_number + 1 \in DOMAIN r.header
    THEN r.header[column_number + 1]
    ELSE GarbageDesc

FQgetvalue(r, row_number, column_number) ==
    IF ~check_tuple_field_number(r, row_number, column_number)
    THEN NULLPTR
    ELSE AttAt(r, row_number, column_number).value

FQgetisnull(r, row_number, column_number) ==
    IF ~check_tuple_field_number(r, row_number, column_number)
    THEN 1
    ELSE IF AttAt(r, row_number, column_number).has_null = TRUE
         THEN 1
         ELSE 0

FQgetlength(r, row_number, column_number) ==
    IF ~check_tuple_field_number(r, row_number, column_number)
    THEN -1
    ELSE AttAt(r, row_number, column_number).len

FQgetdsplen(r, row_number, column_number) ==
    IF ~check_tuple_field_number(r, row_number, column_number)
    THEN -1
    ELSE AttAt(r, row_number, column_number).dsplen

FQfhasNull(r, column_number) ==
    IF r = NULLRES THEN FALSE
    ELSE IF ~ColumnInRange(r, column_number) THEN FALSE
    ELSE HeaderAt(r, column_number).has_null

\* the width chosen once the descriptor d is in hand
MaxWidth(d) ==
    IF d.alias_len # 0
    THEN IF d.att_max_len > d.alias_dsplen THEN d.att_max_line_len ELSE d.alias_dsplen
    ELSE IF d.att_max_len > d.desc_dsplen THEN d.att_max_line_len ELSE d.desc_dsplen

FQfmaxwidth(r, column_number) ==
    IF r = NULLRES THEN -1
    ELSE IF ~ColumnInRange(r, column_number) THEN -1
    ELSE IF r.header_ptr = 0 THEN -1
    ELSE MaxWidth(HeaderAt(r, column_number))

\* "return alias, if set"
NameOf(d) == IF d.alias_len # 0 THEN d.alias ELSE d.desc

FQfname(r, column_number) ==
    IF r = NULLRES THEN NULLPTR
    ELSE IF ~ColumnInRange(r, column_number) THEN NULLPTR
    ELSE IF r.header_ptr = 0 THEN NULLPTR
    ELSE NameOf(HeaderAt(r, column_number))

FQftype(r, column_number) ==
    IF r = NULLRES THEN SQL_INVALID_TYPE
    ELSE IF ~ColumnInRange(r, column_number) THEN SQL_INVALID_TYPE
    ELSE HeaderAt(r, column_number).type

FQfformat(r, column_number) ==
    IF r = NULLRES THEN -1
    ELSE IF ~ColumnInRange(r, column_number) THEN -1
    ELSE IF FQftype(r, column_number) = SQL_BLOB THEN 1
    ELSE 0

(***************************************************************************)
(* _FQexec.  stmt is the statement as the engine classifies it (type,      *)
(* output columns, parameter slots); eng holds the engine's answers for    *)
(* this call: fail (primitives that report an error when reached), rows    *)
(* (the rows fetch yields before it stops) and null_sqlda (what a fetch    *)
(* into a NULL descriptor array does: "error" or "crash").                 *)
(* The value is [c, r, ub]: connection, returned result, and whether the   *)
(* call ran into undefined behaviour instead of returning.                 *)
(***************************************************************************)
Out(c, r, ub) == [c |-> c, r |-> r, ub |-> ub]

\* slip: the implicit start leaves the explicit-transaction flag alone
ImplicitStart_NoFlag(c, which, line) ==
    IF Handle(c, which) = 0 THEN _FQstartTransaction(c, which, line) ELSE c

\* "begin transaction, if none set"
ImplicitStart(c, which, line) ==
    IF Handle(c, which) = 0
    THEN LET cs == _FQstartTransaction(c, which, line)
         IN IF cs.autocommit = FALSE THEN [cs EXCEPT !.in_user_transaction = TRUE] ELSE cs
    ELSE c

\* slip: no check for a transaction already active
_FQexecStartTrans_NoCheck(c, which, r) ==
    Out([_FQstartTransaction(c, which, 1256) EXCEPT !.in_user_transaction = TRUE],
        _FQexecClearResult([r EXCEPT !.resultStatus = FBRES_TRANSACTION_START]),
        FALSE)

\* "Handle explicit SET TRANSACTION"
_FQexecStartTrans(c, which, r) ==
    IF Handle(c, which) # 0
    THEN Out(c, _FQexecClearResult([r EXCEPT !.resultStatus = FBRES_EMPTY_QUERY]), FALSE)
    ELSE Out([_FQstartTransaction(c, which, 1256) EXCEPT !.in_user_transaction = TRUE],
             _FQexecClearResult([r EXCEPT !.resultStatus = FBRES_TRANSACTION_START]),
             FALSE)

\* slip: the explicit-transaction flag is left as it was
_FQexecCommit_KeepsFlag(c, which, r) ==
    LET none == Handle(c, which) = 0
        c1 == IF none THEN c ELSE _FQcommitTransaction(c, which, 1275)
        st == IF none THEN FBRES_EMPTY_QUERY ELSE FBRES_TRANSACTION_COMMIT
    IN Out(c1, _FQexecClearResult([r EXCEPT !.resultStatus = st]), FALSE)

\* "Handle explicit COMMIT"
_FQexecCommit(c, which, r) ==
    LET none == Handle(c, which) = 0
        c1 == IF none THEN c ELSE _FQcommitTransaction(c, which, 1275)
        st == IF none THEN FBRES_EMPTY_QUERY ELSE FBRES_TRANSACTION_COMMIT
    IN Out([c1 EXCEPT !.in_user_transaction = FALSE],
           _FQexecClearResult([r EXCEPT !.resultStatus = st]), FALSE)

\* "Handle explit ROLLBACK"
_FQexecRollback(c, which, r) ==
    LET none == Handle(c, which) = 0
        c1 == IF none THEN c ELSE _FQrollbackTransaction(c, which, 1298)
        st == IF none THEN FBRES_EMPTY_QUERY ELSE FBRES_TRANSACTION_ROLLBACK
    IN Out([c1 EXCEPT !.in_user_transaction = FALSE],
           _FQexecClearResult([r EXCEPT !.resultStatus = st]), FALSE)

\* slip: the statement's own transaction is committed only under autocommit
DDLCommits_PolicyOnly(c, temp_trans) == AutocommitGoverns(c)

\* when the DDL handler commits after a successful execute
DDLCommits(c, temp_trans) == AutocommitGoverns(c) \/ temp_trans

\* "Handle DDL statement"
_FQexecDDL(c, which, r, eng) ==
    LET temp_trans == Handle(c, which) = 0
        c1 == IF temp_trans THEN _FQstartTransaction(c, which, 1318) ELSE c
    IN IF "execute" \in eng.fail
       THEN Out(_FQrollbackTransaction(c1, which, 1324),
                _FQexecClearResult(Fatal(Issue(r, "execute"))), FALSE)
       ELSE Out(IF DDLCommits(c1, temp_trans)
                THEN _FQcommitTransaction(c1, which, 1336) ELSE c1,
                _FQexecClearResult([Issue(r, "execute") EXCEPT
                                       !.resultStatus = FBRES_COMMAND_OK]),
                FALSE)

\* statement returns no rows (sqld = 0)
_FQexecNoRows(c, which, r, stmt, eng) ==
    LET statement_type == stmt.type
    IN CASE statement_type = isc_info_sql_stmt_start_trans -> _FQexecStartTrans(c, which, r)
         [] statement_type = isc_info_sql_stmt_commit -> _FQexecCommit(c, which, r)
         [] statement_type = isc_info_sql_stmt_rollback -> _FQexecRollback(c, which, r)
         [] statement_type = isc_info_sql_stmt_ddl -> _FQexecDDL(c, which, r, eng)
         [] OTHER ->
              LET c1 == ImplicitStart(c, which, 1348)
              IN IF "execute" \in eng.fail
                 THEN Out(c1, _FQexecClearResult(Fatal(Issue(r, "execute"))), FALSE)
                 ELSE Out(IF AutocommitGoverns(c1)
                          THEN _FQcommitTransaction(c1, which, 1367) ELSE c1,
                          _FQexecClearResult([Issue(r, "execute") EXCEPT
                                                 !.resultStatus = FBRES_COMMAND_OK]),
                          FALSE)

\* slip: the new array has twice the slots of the old one
ExpandSqlDaOut_Doubling(r) ==
    MallocSqlDa(FreeSqlDa(r, "sqlda_out"), "sqlda_out", 2 * r.sqlda_out.sqln)

\* "Expand sqlda to required number of columns": new array of exactly ncols slots
ExpandSqlDaOut(r) == MallocSqlDa(FreeSqlDa(r, "sqlda_out"), "sqlda_out", r.ncols)

\* the fetch loop ended with an error code
_FQexecFetchError(c, which, r) ==
    Out(IF AutocommitGoverns(c) THEN _FQrollbackTransaction(c, which, 1465) ELSE c,
        _FQexecClearResult(Fatal(r)), FALSE)

\* statement returns rows (sqld > 0)
_FQexecRows(c, which, r, stmt, eng) ==
    LET c1 == ImplicitStart(c, which, 1379)
    IN IF "describe" \in eng.fail
       THEN Out(c1, _FQexecClearResult(Fatal(Issue(r, "describe"))), FALSE)
       ELSE
       LET r1 == Issue([r EXCEPT !.sqlda_out = Describe(r.sqlda_out, stmt.cols),
                                 !.ncols = Len(stmt.cols)], "describe")
           expand == r1.sqlda_out.sqln < r1.ncols
       IN IF expand /\ "describe2" \in eng.fail
          THEN Out(c1, _FQexecClearResult(Fatal(Issue(ExpandSqlDaOut(r1), "describe"))),
                   FALSE)
          ELSE
          LET r2 == IF expand
                    THEN [Issue(ExpandSqlDaOut(r1), "describe") EXCEPT
                             !.sqlda_out = Describe(@, stmt.cols),
                             !.ncols = Len(stmt.cols)]
                    ELSE r1
              r3 == Issue(_FQexecInitOutputSQLDA(r2), "execute")
          IN IF "execute" \in eng.fail
             THEN Out(IF AutocommitGoverns(c1)
                      THEN _FQrollbackTransaction(c1, which, 1436) ELSE c1,
                      _FQexecClearResult(Fatal(r3)), FALSE)
             ELSE
             LET r4 == Issue([r3 EXCEPT !.tuple_first = 0, !.tuple_last = 0,
                                        !.header_ptr = 1, !.header = <<>>], "fetch")
             IN IF r4.sqlda_out.null
                THEN \* isc_dsql_fetch is handed a NULL descriptor array
                     IF eng.null_sqlda = "crash"
                     THEN Out(c1, r4, TRUE)
                     ELSE _FQexecFetchError(c1, which, r4)
                ELSE
                LET r5 == StoreRows(r4, eng.rows, 0)
                IN IF "fetch" \in eng.fail
                   THEN _FQexecFetchError(c1, which, r5)
                   ELSE
                   LET r6 == _FQexecFillTuplesArray(
                                 [r5 EXCEPT !.resultStatus = FBRES_TUPLES_OK,
                                            !.ntups = Len(eng.rows)])
                   IN Out(IF AutocommitGoverns(c1)
                          THEN _FQcommitTransaction(c1, which, 1481) ELSE c1,
                          _FQexecClearResult(r6), FALSE)

\* slip: the temporary transaction is left open
RollbackTemp_Skipped(c, which, temp_trans, line) == c

\* "If a temporary transaction was previously created, roll it back"
RollbackTemp(c, which, temp_trans, line) ==
    IF temp_trans THEN _FQrollbackTransaction(c, which, line) ELSE c

_FQexec(c, which, stmt, eng) ==
    LET r0 == Issue(_FQinitResult(FALSE), "alloc")
    IN IF "alloc" \in eng.fail
       THEN Out(c, _FQexecClearResult(Fatal(r0)), FALSE)
       ELSE
       LET r1 == Issue([r0 EXCEPT !.stmt_handle = 1], "prepare")
           temp_trans == Handle(c, which) = 0
           c1 == IF temp_trans THEN _FQstartTransaction(c, which, 1201) ELSE c
       IN IF "prepare" \in eng.fail
          THEN Out(_FQrollbackTransaction(c1, which, 1212),
                   _FQexecClearResult(Fatal(r1)), FALSE)
          ELSE
          LET r2 == Issue([r1 EXCEPT !.sqlda_out = Describe(r1.sqlda_out, stmt.cols)], "info")
              c2 == RollbackTemp(c1, which, temp_trans, 1223)
          IN IF "info" \in eng.fail
             THEN Out(_FQrollbackTransaction(c2, which, 1234),
                      _FQexecClearResult(Fatal(r2)), FALSE)
             ELSE IF r2.sqlda_out.sqld = 0
                  THEN _FQexecNoRows(c2, which, r2, stmt, eng)
                  ELSE _FQexecRows(c2, which, r2, stmt, eng)

(***************************************************************************)
(* FQprepare / _FQexecParams.  paramValues[i] is TRUE when the caller      *)
(* passes a non-NULL text for parameter i, FALSE when it passes NULL.      *)
(***************************************************************************)
DMLTypes == {isc_info_sql_stmt_insert, isc_info_sql_stmt_select,
             isc_info_sql_stmt_exec_procedure}

FQprepare(c, stmt, eng) ==
    LET which == "trans"
        r0 == Issue(_FQinitResult(TRUE), "alloc")
    IN IF "alloc" \in eng.fail
       THEN Out(c, _FQexecClearResult(Fatal(r0)), FALSE)
       ELSE
       LET r1 == Issue([r0 EXCEPT !.stmt_handle = 1], "prepare")
           temp_trans == Handle(c, which) = 0
           c1 == IF temp_trans THEN _FQstartTransaction(c, which, 1582) ELSE c
       IN IF "prepare" \in eng.fail
          THEN Out(_FQrollbackTransaction(c1, which, 1593),
                   _FQexecClearResult(Fatal(r1)), FALSE)
          ELSE
          LET c2 == RollbackTemp(c1, which, temp_trans, 1603)
          IN IF "info" \in eng.fail
             THEN Out(_FQrollbackTransaction(c2, which, 1614),
                      _FQexecClearResult(Fatal(Issue(r1, "info"))), FALSE)
             ELSE
             LET r2 == Issue([r1 EXCEPT !.statement_type = stmt.type], "info")
             IN IF stmt.type \notin DMLTypes
                THEN Out(_FQrollbackTransaction(c2, which, 1640),
                         _FQexecClearResult(Fatal(r2)), FALSE)
                ELSE Out(c2, r2, FALSE)

_FQexecClearResultParams(r, free_result_stmt_handle) ==
    LET r1 == _FQexecClearResult(r)
    IN IF free_result_stmt_handle
       THEN [r1 EXCEPT !.stmt_handle = 0]
       ELSE _FQinitResultSqlDa(r1, TRUE)

FreeStmt(r, free_result_stmt_handle) ==
    IF free_result_stmt_handle THEN [r EXCEPT !.stmt_handle = 0] ELSE r

\* index of the first parameter slot whose type the bind switch does not handle, or 0
FirstUnhandledParam(r) == FirstUnhandled(r.sqlda_in.sqlvar, r.sqlda_in.sqld)

\* the bind loop over the slots before position upto + 1: every slot gets its
\* data buffer (a NULL value leaves sqldata NULL) and, if nullable, its indicator
BindParams(r, paramValues, upto) ==
    LET vars == r.sqlda_in.sqlvar
    IN [r EXCEPT !.sqlda_in.sqlvar =
          [i \in 1..Len(vars) |->
              IF i <= upto
              THEN [vars[i] EXCEPT !.sqldata = paramValues[i],
                                   !.sqlind = vars[i].nullable]
              ELSE vars[i]]]

\* slip: the row count is not set after the output values were stored
StoreProcedureRow_NoCount(r, eng) == _FQstoreResult(r, 0, eng.rows[1])

\* isc_dsql_execute2 left the output values in sqlda_out: they are stored as
\* the one tuple of the result
StoreProcedureRow(r, eng) == [_FQstoreResult(r, 0, eng.rows[1]) EXCEPT !.ntups = 1]

\* from the execute call to the return (output columns expected)
_FQexecParamsRows(c, which, r, free_result_stmt_handle, stmt, eng) ==
    IF "execute" \in eng.fail
    THEN Out(IF AutocommitGoverns(c) THEN _FQrollbackTransaction(c, which, 2311) ELSE c,
             FreeStmt(_FQexecClearResult(Fatal(r)), free_result_stmt_handle), FALSE)
    ELSE
    LET r0 == [r EXCEPT !.tuple_first = 0, !.tuple_last = 0,
                        !.header_ptr = 1, !.header = <<>>]
        r1 == IF r.statement_type = isc_info_sql_stmt_exec_procedure
              THEN r0 ELSE Issue(r0, "fetch")
        fetched ==
            IF r1.statement_type = isc_info_sql_stmt_exec_procedure
            THEN StoreProcedureRow(r1, eng)
            ELSE [StoreRows(r1, eng.rows, 0) EXCEPT !.ntups = Len(eng.rows)]
    IN IF r1.sqlda_out.null
          /\ (r1.statement_type = isc_info_sql_stmt_exec_procedure \/ eng.null_sqlda = "crash")
       THEN \* _FQstoreResult or the engine reads through the NULL descriptor array
            Out(c, r1, TRUE)
       ELSE IF r1.statement_type # isc_info_sql_stmt_exec_procedure
               /\ (r1.sqlda_out.null \/ "fetch" \in eng.fail)
       THEN Out(IF AutocommitGoverns(c) THEN _FQrollbackTransaction(c, which, 2366) ELSE c,
                FreeStmt(_FQexecClearResult(
                            Fatal(IF r1.sqlda_out.null THEN r1
                                  ELSE StoreRows(r1, eng.rows, 0))),
                         free_result_stmt_handle),
                FALSE)
       ELSE IF free_result_stmt_handle /\ "free" \in eng.fail
       THEN Out(_FQrollbackTransaction(c, which, 2410), Fatal(fetched), FALSE)
       ELSE Out(IF AutocommitGoverns(c) THEN _FQcommitTransaction(c, which, 2426) ELSE c,
                _FQexecClearResult(
                    [_FQexecFillTuplesArray(FreeStmt(fetched, free_result_stmt_handle))
                        EXCEPT !.resultStatus = FBRES_TUPLES_OK]),
                FALSE)

\* from the output describe to the return
_FQexecParamsDescribe(c, which, r, free_result_stmt_handle, stmt, eng) ==
    IF "describe" \in eng.fail
    THEN Out(c, _FQexecClearResult(Fatal(Issue(r, "describe"))), FALSE)
    ELSE
    LET r0 == Issue([r EXCEPT !.sqlda_out = Describe(r.sqlda_out, stmt.cols),
                              !.ncols = Len(stmt.cols)], "describe")
        r1 == IF r0.ncols = 0 THEN Issue(r0, "execute") ELSE r0
    IN IF r1.ncols = 0
       THEN IF "execute" \in eng.fail
            THEN Out(IF AutocommitGoverns(c)
                     THEN _FQrollbackTransaction(c, which, 2259) ELSE c,
                     _FQexecClearResultParams(Fatal(r1), free_result_stmt_handle), FALSE)
            ELSE Out(IF AutocommitGoverns(c)
                     THEN _FQcommitTransaction(c, which, 2272) ELSE c,
                     _FQexecClearResultParams([r1 EXCEPT !.resultStatus = FBRES_COMMAND_OK],
                                              free_result_stmt_handle),
                     FALSE)
       ELSE
       LET expand == r1.sqlda_out.sqln < r1.ncols
           r2 == IF expand
                 THEN IF "describe2" \in eng.fail
                      THEN [Issue(ExpandSqlDaOut(r1), "describe") EXCEPT !.ncols = 0]
                      ELSE [Issue(ExpandSqlDaOut(r1), "describe") EXCEPT
                               !.sqlda_out = Describe(@, stmt.cols)]
                 ELSE r1
       IN _FQexecParamsRows(c, which, Issue(_FQexecInitOutputSQLDA(r2), "execute"),
                            free_result_stmt_handle, stmt, eng)

_FQexecParams(c, which, r, free_result_stmt_handle, stmt, paramValues, eng) ==
    IF "describe_bind" \in eng.fail
    THEN Out(_FQrollbackTransaction(c, which, 1706),
             _FQexecClearResult(Fatal(Issue(r, "describe_bind"))), FALSE)
    ELSE
    LET c1 == ImplicitStart(c, which, 1715)
        r1 == Issue([r EXCEPT !.sqlda_in = Describe(r.sqlda_in, stmt.params)],
                    "describe_bind")
        r2 == IF r1.sqlda_in.sqld > r1.sqlda_in.sqln
              THEN [Issue(MallocSqlDa(FreeSqlDa(r1, "sqlda_in"), "sqlda_in",
                                      r1.sqlda_in.sqld), "describe_bind")
                       EXCEPT !.sqlda_in =
                          IF "describe_bind2" \in eng.fail
                          THEN @
                          ELSE Describe(@, stmt.params)]
              ELSE r1
        k == FirstUnhandledParam(r2)
    IN IF k = 0
       THEN _FQexecParamsDescribe(c1, which, BindParams(r2, paramValues, r2.sqlda_in.sqld),
                                  free_result_stmt_handle, stmt, eng)
       ELSE IF paramValues[k]
            THEN \* non-NULL value of an unhandled type: error return
                 Out(c1, _FQexecClearResult(Fatal(BindParams(r2, paramValues, k - 1))), FALSE)
            ELSE \* NULL value of an unhandled type: the arrays are released and the
                 \* loop goes on reading var and result->sqlda_in
                 Out(c1, _FQexecClearResult(Fatal(BindParams(r2, paramValues, k - 1))), TRUE)

FQexecParamsCall(c, stmt, paramValues, eng) ==
    LET Prepared(o) ==
            IF o.r.resultStatus # FBRES_NO_ACTION
            THEN o
            ELSE _FQexecParams(o.c, "trans", o.r, TRUE, stmt, paramValues, eng)
    IN Prepared(FQprepare(c, stmt, eng))

\* FQexecPrepared: _FQexecParams on the result FQprepare made, the statement
\* handle being kept.  When an earlier execution left sqlda_in NULL,
\* isc_dsql_describe_bind is handed a NULL descriptor array: the engine
\* reports an error or the process crashes.
FQexecPreparedCall(c, r, stmt, paramValues, eng) ==
    IF r.sqlda_in.null
    THEN IF eng.null_sqlda = "crash"
         THEN Out(c, r, TRUE)
         ELSE _FQexecParams(c, "trans", r, FALSE, stmt, paramValues,
                            [eng EXCEPT !.fail = {"describe_bind"}])
    ELSE _FQexecParams(c, "trans", r, FALSE, stmt, paramValues, eng)

\* isc_dsql_free_statement(..., DSQL_drop)
FQdeallocatePrepared(r) == [r EXCEPT !.stmt_handle = 0]

(***************************************************************************)
(* FQexecTransaction: the statement runs on the internal transaction.      *)
(***************************************************************************)
\* the branches on the status of the result _FQexec handed back
FQexecTransactionEnd(o) ==
    LET which == "trans_internal"
        CommitOrRollback(c) ==
            IF Handle(c, which) = 0
            THEN \* the commit reports TRANS_ERROR
                 Out(_FQrollbackTransaction(_FQcommitTransaction(c, which, 2608), which, 2613),
                     _FQsaveMessageField(o.r, "FB_DIAG_DEBUG"), FALSE)
            ELSE Out(_FQcommitTransaction(c, which, 2608), o.r, FALSE)
    IN IF o.ub THEN o
       ELSE IF FQresultStatus(o.r) = FBRES_FATAL_ERROR
       THEN Out(_FQrollbackTransaction(o.c, which, 2602),
                _FQsaveMessageField(o.r, "FB_DIAG_DEBUG"), FALSE)
       ELSE IF FQresultStatus(o.r) = FBRES_COMMAND_OK
       THEN CommitOrRollback(o.c)
       ELSE IF FQresultStatus(o.r) = FBRES_TUPLES_OK
       THEN Out(_FQcommitTransaction(o.c, which, 2619), o.r, FALSE)
       ELSE o

FQexecTransactionCall(c, stmt, eng) ==
    IF Handle(c, "trans_internal") # 0
    THEN \* TRANS_ERROR: "result->resultStatus = ..." is executed with result NULL
         Out(_FQstartTransaction(c, "trans_internal", 2584), NULLRES, TRUE)
    ELSE FQexecTransactionEnd(
             _FQexec(_FQstartTransaction(c, "trans_internal", 2584),
                     "trans_internal", stmt, eng))

(***************************************************************************)
(* FQclear.  Allocations are named by tuples: <<"header">>, <<"desc", i>>,  *)
(* <<"desc.desc", i>>, <<"tuple", a>>, <<"att.value", a, j>>, ...           *)
(***************************************************************************)
\* every allocation the result r owns when it is handed to FQclear
OwnedByResult(r) ==
    {<<"result">>}
    \cup (IF r.header_ptr = 1 THEN {<<"header">>} ELSE {})
    \cup UNION {{<<"desc", i>>, <<"desc.desc", i>>}
                \cup (IF r.header[i].alias.null THEN {} ELSE {<<"desc.alias", i>>})
                \cup (IF r.header[i].relname.null THEN {} ELSE {<<"desc.relname", i>>})
                : i \in DOMAIN r.header}
    \cup UNION {{<<"tuple", a>>, <<"tuple.values", a>>}
                \cup {<<"att", a, j>> : j \in DOMAIN r.heap[a].values}
                \cup {<<"att.value", a, j>> :
                         j \in {k \in DOMAIN r.heap[a].values : ~r.heap[a].values[k].value.null}}
                : a \in DOMAIN r.heap}
    \cup (IF r.tuples_ptr = 1 THEN {<<"tuples">>} ELSE {})
    \cup (IF r.errMsg = 1 THEN {<<"errMsg">>} ELSE {})
    \cup {<<"errMsg.lost", k>> : k \in 1..r.errMsg_lost}
    \cup UNION {{<<"errField", k>>, <<"errField.value", k>>} : k \in DOMAIN r.errFields}
    \cup (IF r.sqlda_in.null THEN {} ELSE {<<"sqlda", r.sqlda_in.addr>>})
    \cup (IF r.sqlda_out.null THEN {} ELSE {<<"sqlda", r.sqlda_out.addr>>})

\* "Free header section": the descriptors of the first ncols columns
ClearHeader(r) ==
    UNION {{<<"desc", i>>, <<"desc.desc", i>>}
           \cup (IF r.header[i].alias.null THEN {} ELSE {<<"desc.alias", i>>})
           \cup (IF r.header[i].relname.null THEN {} ELSE {<<"desc.relname", i>>})
           : i \in {k \in 1..r.ncols : k \in DOMAIN r.header}}
    \cup {<<"header">>}

\* what freeing the tuple at address a releases
ClearTuple(heap, a) ==
    {<<"tuple", a>>, <<"tuple.values", a>>}
    \cup {<<"att", a, j>> : j \in DOMAIN heap[a].values}
    \cup {<<"att.value", a, j>> :
             j \in {k \in DOMAIN heap[a].values : ~heap[a].values[k].value.null}}

\* "Free any tuples": the loop from tuple_ptr at iteration i; it leaves
\* the loop at the first tuple whose next link is NULL
RECURSIVE ClearTuples(_, _, _, _)
ClearTuples(heap, tuple_ptr, i, ntups) ==
    IF ~(i < ntups) THEN {}
    ELSE IF heap[tuple_ptr].next = 0 THEN {}
    ELSE ClearTuple(heap, tuple_ptr) \cup ClearTuples(heap, heap[tuple_ptr].next, i + 1, ntups)

\* the allocations FQclear(r) frees, r not NULL
FQclearFrees(r) ==
    (IF r.ntups > 0
     THEN ClearHeader(r)
          \cup (IF r.tuple_first # 0
                THEN ClearTuples(r.heap, r.tuple_first, 0, r.ntups)
                     \cup (IF r.tuples_ptr = 1 THEN {<<"tuples">>} ELSE {})
                ELSE {})
     ELSE {})
    \cup (IF r.errMsg # 0 THEN {<<"errMsg">>} ELSE {})
    \cup UNION {{<<"errField", k>>, <<"errField.value", k>>} : k \in DOMAIN r.errFields}
    \cup (IF ~r.sqlda_in.null THEN {<<"sqlda", r.sqlda_in.addr>>} ELSE {})
    \cup (IF ~r.sqlda_out.null THEN {<<"sqlda", r.sqlda_out.addr>>} ELSE {})
    \cup {<<"result">>}

\* "if (result->tuples) free(result->tuples)" is reached with a pointer that
\* was never set (the result was returned before _FQexecFillTuplesArray)
FQclearFreesUnsetPointer(r) ==
    r.ntups > 0 /\ r.tuple_first # 0 /\ r.tuples_ptr = UNINIT

\* the descriptor-array addresses freed once FQclear(r) has run
FQclearFreed(r) ==
    r.freed \o (IF ~r.sqlda_in.null THEN <<r.sqlda_in.addr>> ELSE <<>>)
            \o (IF ~r.sqlda_out.null THEN <<r.sqlda_out.addr>> ELSE <<>>)

(***************************************************************************)
(* FQfinish.  The connection's log gets an entry for the detach and one    *)
(* for the release of the connection's buffers and of the object itself.   *)
(***************************************************************************)
\* "if (conn->trans != 0L) FQrollbackTransaction(conn)"
FinishRollback(c) ==
    IF c.trans # 0 THEN _FQrollbackTransaction(c, "trans", 3489) ELSE c

\* "if (conn->db != 0L) isc_detach_database(...)"
FinishDetach(c) ==
    IF c.db # 0
    THEN [c EXCEPT !.db = 0, !.log = Append(c.log, LogEntry("detach", "db", 478, TRUE))]
    ELSE c

\* status, dpb_buffer, engine_version, db_path, uname, upass,
\* client_encoding, errMsg and the connection object are freed
FinishFree(c) ==
    [c EXCEPT !.alive = FALSE, !.log = Append(c.log, LogEntry("free", "conn", 504, TRUE))]

\* slip: the detach comes before the rollback
FQfinishConn_DetachFirst(c) == FinishFree(FinishRollback(FinishDetach(c)))

\* FQfinish(conn), conn not NULL
FQfinishConn(c) == FinishFree(FinishDetach(FinishRollback(c)))

(***************************************************************************)
(* Environment: the statements the caller submits and the engine's answers *)
(***************************************************************************)
ColLong == [sqltype |-> SQL_LONG, nullable |-> TRUE, sqlscale |-> 0,
            sqlname |-> <<"I", "D">>, aliasname |-> <<"I", "D">>, relname |-> <<"T">>]
ColNumeric == [sqltype |-> SQL_SHORT, nullable |-> FALSE, sqlscale |-> -1,
               sqlname |-> <<"N">>, aliasname |-> <<"N", "U", "M">>, relname |-> <<>>]
ColText == [sqltype |-> SQL_TEXT, nullable |-> TRUE, sqlscale |-> 0,
            sqlname |-> <<"S">>, aliasname |-> <<"S">>, relname |-> <<"T">>]
ColUnhandled == [sqltype |-> SQL_UNHANDLED, nullable |-> TRUE, sqlscale |-> 0,
                 sqlname |-> <<"A">>, aliasname |-> <<"A">>, relname |-> <<"T">>]

\* the caller's queries select the first MaxCols columns of a table whose
\* columns cycle through TableCols, or the same with a last column of a type
\* the library does not handle
TableCols == <<ColText, ColNumeric, ColLong>>

Cyclic(seq, k) == seq[((k - 1) % Len(seq)) + 1]

GoodCols(n) == [i \in 1..n |-> Cyclic(TableCols, i)]

BadCols(n) == [i \in 1..n |-> IF i = n THEN ColUnhandled ELSE Cyclic(TableCols, i)]

ColLists == {GoodCols(MaxCols), BadCols(MaxCols)}

\* a select list one column wider than the preallocated descriptor array
WideCols == GoodCols(FB_XSQLDA_INITLEN + 1)

\* parameter slots: 0..MaxParams integer slots, or the same with a last slot
\* of a type the library does not handle
GoodParams(n) == [i \in 1..n |-> ColLong]

BadParams(n) == [i \in 1..n |-> IF i = n THEN ColUnhandled ELSE ColLong]

ParamLists == {GoodParams(n) : n \in 0..MaxParams} \cup {BadParams(n) : n \in 1..MaxParams}

Stmt(type, cols, params) == [type |-> type, cols |-> cols, params |-> params]

ControlTypes == {isc_info_sql_stmt_start_trans, isc_info_sql_stmt_commit,
                 isc_info_sql_stmt_rollback}

\* statements given to FQexec
Statements ==
    {Stmt(isc_info_sql_stmt_select, cols, <<>>) : cols \in ColLists \cup {WideCols}}
    \cup {Stmt(t, <<>>, <<>>) : t \in {isc_info_sql_stmt_insert, isc_info_sql_stmt_ddl}
                                      \cup ControlTypes}

\* statements given to FQexecParams: INSERT with any parameter list, SELECT and
\* INSERT ... RETURNING with the full parameter list (RETURNING the columns
\* of the table, or the integer column alone), and non-DML statements
ParamStatements ==
    {Stmt(isc_info_sql_stmt_insert, <<>>, ps) : ps \in ParamLists}
    \cup {Stmt(t, cols, GoodParams(MaxParams)) :
             t \in {isc_info_sql_stmt_select, isc_info_sql_stmt_exec_procedure},
             cols \in ColLists}
    \cup {Stmt(isc_info_sql_stmt_select, WideCols, GoodParams(MaxParams))}
    \cup {Stmt(isc_info_sql_stmt_exec_procedure, <<ColLong>>, GoodParams(MaxParams))}
    \cup {Stmt(t, <<>>, <<>>) : t \in {isc_info_sql_stmt_ddl} \cup ControlTypes}

ParamValueLists(stmt) == [1..Len(stmt.params) -> BOOLEAN]

\* the table content: what the engine puts into a slot of each column type,
\* row after row (the table rows repeat cyclically)
LongCells == <<[sqlind |-> 0, sqldata |-> 42, snprintf_fails |-> FALSE],
               [sqlind |-> -1, sqldata |-> 0, snprintf_fails |-> FALSE],
               [sqlind |-> 0, sqldata |-> -7, snprintf_fails |-> FALSE]>>

ShortCells == <<[sqlind |-> 0, sqldata |-> -5, snprintf_fails |-> FALSE],
                [sqlind |-> 0, sqldata |-> -15, snprintf_fails |-> TRUE],
                [sqlind |-> 0, sqldata |-> 15, snprintf_fails |-> FALSE]>>

TextCells == <<[sqlind |-> 0, sqldata |-> <<"a", "b">>, snprintf_fails |-> FALSE],
               [sqlind |-> -1, sqldata |-> <<>>, snprintf_fails |-> FALSE],
               [sqlind |-> 0, sqldata |-> <<>>, snprintf_fails |-> FALSE]>>

CellOf(col, v) ==
    CASE col.sqltype = SQL_LONG -> Cyclic(LongCells, v)
      [] col.sqltype = SQL_SHORT -> Cyclic(ShortCells, v)
      [] col.sqltype = SQL_TEXT -> Cyclic(TextCells, v)
      [] OTHER -> [sqlind |-> 0, sqldata |-> 0, snprintf_fails |-> FALSE]

RowOf(cols, v) == [i \in 1..Len(cols) |-> CellOf(cols[i], v)]

\* a query yields the first 0..MaxRows table rows
RowLists(cols) == {[i \in 1..n |-> RowOf(cols, i)] : n \in 0..MaxRows}

HasUnhandled(cols) == \E i \in 1..Len(cols) : cols[i].sqltype \notin HandledOutputTypes

\* a call that fails before isc_dsql_sql_info has answered never learns how
\* the engine classifies its statement
Unclassified == Stmt("unclassified", <<>>, <<>>)

EarlySteps == {"alloc", "prepare", "info"}

\* the primitives _FQexec reaches after the statement type is known and
\* before the fetch loop
ExecSteps(stmt) ==
    (IF stmt.cols # <<>> THEN {"describe", "execute"}
     ELSE IF stmt.type \in ControlTypes THEN {} ELSE {"execute"})
    \cup (IF Len(stmt.cols) > FB_XSQLDA_INITLEN THEN {"describe2"} ELSE {})

\* the same for FQexecParams
ExecParamsSteps(stmt) ==
    IF stmt.type \notin DMLTypes THEN {}
    ELSE {"describe_bind"}
         \cup (IF HasUnhandled(stmt.params) THEN {} ELSE {"describe", "execute"})
         \cup (IF Len(stmt.cols) > FB_XSQLDA_INITLEN THEN {"describe2"} ELSE {})

Answer(fail, rows, null_sqlda) == [fail |-> fail, rows |-> rows, null_sqlda |-> null_sqlda]

\* the engine's possible answers to one execute call: one of the primitives
\* before the fetch loop fails; or the fetch loop yields rows and then stops
\* with no-more-rows or with an error (after_fetch: what can fail then); or
\* (a column type nothing handles) the fetch is handed a NULL descriptor array
EngineAnswers(stmt, steps, after_fetch) ==
    {Answer({s}, <<>>, "error") : s \in steps}
    \cup (IF stmt.cols = <<>> \/ ~("execute" \in steps)
          THEN {Answer({}, <<>>, "error")}
          ELSE IF HasUnhandled(stmt.cols)
               THEN {Answer({}, <<>>, ns) : ns \in {"error", "crash"}}
               ELSE IF stmt.type = isc_info_sql_stmt_exec_procedure
                    THEN {Answer(f, <<RowOf(stmt.cols, v)>>, "error") :
                             f \in {{}} \cup {{s} : s \in after_fetch \ {"fetch"}},
                             v \in 1..MaxRows}
                    ELSE {Answer(f, rows, "error") :
                             f \in {{}} \cup {{s} : s \in after_fetch},
                             rows \in RowLists(stmt.cols)})

\* statements given to FQprepare: INSERT and SELECT with parameters, and one
\* that is not DML
PreparedStatements ==
    {Stmt(isc_info_sql_stmt_insert, <<>>, GoodParams(MaxParams)),
     Stmt(isc_info_sql_stmt_select, <<ColLong>>, GoodParams(MaxParams)),
     Stmt(isc_info_sql_stmt_ddl, <<>>, <<>>)}

PrepareCalls ==
    {[stmt |-> stmt, paramValues |-> <<>>, eng |-> Answer(f, <<>>, "error")] :
        stmt \in PreparedStatements, f \in {{}, {"prepare"}}}

\* the calls of FQexecPrepared for a prepared statement: the execute fails, or
\* it succeeds and the fetch loop yields no row or one
PreparedExecCalls(stmt) ==
    {[stmt |-> stmt, paramValues |-> [i \in 1..Len(stmt.params) |-> TRUE], eng |-> e] :
        e \in {Answer({"execute"}, <<>>, ns) : ns \in {"error", "crash"}}
              \cup {Answer({}, rows, "error") :
                       rows \in IF stmt.cols = <<>> THEN {<<>>}
                                ELSE {<<>>, <<RowOf(stmt.cols, 1)>>}}}

EarlyFailures == {[stmt |-> Unclassified, paramValues |-> <<>>,
                   eng |-> Answer({s}, <<>>, "error")] : s \in EarlySteps}

\* the calls of FQexec: statement and engine answers
ExecCalls ==
    EarlyFailures
    \cup UNION {{[stmt |-> stmt, paramValues |-> <<>>, eng |-> eng] :
                    eng \in EngineAnswers(stmt, ExecSteps(stmt), {"fetch"})} :
                stmt \in Statements}

\* the calls of FQexecParams: statement, parameter values and engine answers
ExecParamsCalls ==
    EarlyFailures
    \cup UNION {UNION {{[stmt |-> stmt, paramValues |-> pv, eng |-> eng] :
                           eng \in EngineAnswers(stmt, ExecParamsSteps(stmt),
                                                 {"fetch", "free"})} :
                       pv \in ParamValueLists(stmt)} :
                stmt \in ParamStatements}

\* the calls of FQexecTransaction: the statements of FQexec over the
\* ordinary select list
ExecTransactionCalls ==
    {call \in ExecCalls : call.stmt.cols \in {<<>>, GoodCols(MaxCols)}}

(***************************************************************************)
(* FQExpBuffer.  data is the static oom_buffer or a malloc'd block; bytes  *)
(* lists the block's bytes: the NUL byte, a byte of text, or a byte never  *)
(* written.  mem is the largest block malloc / realloc grant at the time   *)
(* of the call.                                                            *)
(***************************************************************************)
INITIAL_EXPBUFFER_SIZE == 256

INT_MAX == 2147483647

NulByte == "NUL"
TextByte == "c"
Unwritten == "?"

NULLBUF == [null |-> TRUE]

oom_buffer == [static |-> TRUE, bytes |-> <<NulByte>>]

\* malloc(n)
Block(n) == [static |-> FALSE, bytes |-> [i \in 1..n |-> Unwritten]]

\* data[at] = byte
Poke(data, at, byte) == [data EXCEPT !.bytes[at + 1] = byte]

\* datalen bytes of text from data[at] on
Write(data, at, datalen) ==
    [data EXCEPT !.bytes = [i \in 1..Len(@) |->
                               IF (i - 1) \in at..(at + datalen - 1)
                               THEN TextByte ELSE @[i]]]

FQExpBufferBroken(s) == s = NULLBUF \/ s.maxlen = 0

markFQExpBufferBroken(s) == [data |-> oom_buffer, len |-> 0, maxlen |-> 0]

initFQExpBuffer(mem) ==
    IF INITIAL_EXPBUFFER_SIZE > mem
    THEN [data |-> oom_buffer, len |-> 0, maxlen |-> 0]
    ELSE [data |-> Poke(Block(INITIAL_EXPBUFFER_SIZE), 0, NulByte), len |-> 0,
          maxlen |-> INITIAL_EXPBUFFER_SIZE]

\* slip: the terminator is not put back at the start of the data
resetFQExpBuffer_NoTerminator(s, mem) ==
    IF s = NULLBUF THEN s
    ELSE IF ~s.data.static
         THEN [s EXCEPT !.len = 0]
         ELSE initFQExpBuffer(mem)

resetFQExpBuffer(s, mem) ==
    IF s = NULLBUF THEN s
    ELSE IF ~s.data.static
         THEN [s EXCEPT !.len = 0, !.data = Poke(@, 0, NulByte)]
         ELSE initFQExpBuffer(mem)

\* "double the buffer size each time it overflows"
RECURSIVE DoubleUntil(_, _)
DoubleUntil(newlen, needed) ==
    IF needed > newlen THEN DoubleUntil(2 * newlen, needed) ELSE newlen

\* realloc(data, newlen), granted: the old bytes are kept
realloc(data, newlen) ==
    [data EXCEPT !.bytes = [i \in 1..newlen |->
                               IF i <= Len(@) THEN @[i] ELSE Unwritten]]

\* ret is the return value, str the buffer afterwards
enlargeFQExpBuffer(s, needed, mem) ==
    IF FQExpBufferBroken(s)
    THEN [ret |-> 0, str |-> s]
    ELSE IF needed >= INT_MAX - s.len
    THEN [ret |-> 0, str |-> markFQExpBufferBroken(s)]
    ELSE IF needed + s.len + 1 <= s.maxlen
    THEN [ret |-> 1, str |-> s]
    ELSE LET Grown(newlen) ==
                 IF newlen <= mem
                 THEN [ret |-> 1, str |-> [s EXCEPT !.data = realloc(@, newlen),
                                                    !.maxlen = newlen]]
                 ELSE [ret |-> 0, str |-> markFQExpBufferBroken(s)]
             Clamped(newlen) == IF newlen > INT_MAX THEN INT_MAX ELSE newlen
         IN Grown(Clamped(DoubleUntil(IF s.maxlen > 0 THEN 2 * s.maxlen ELSE 64,
                                      needed + s.len + 1)))

\* vsnprintf(data + at, avail, fmt, args) for a text of n chars: at most
\* avail - 1 chars and the terminator are written and n is returned; n < 0
\* is an output error, with nothing written
vsnprintf(data, at, avail, n) ==
    IF n < 0 THEN data
    ELSE Poke(Write(data, at, Min(n, avail - 1)), at + Min(n, avail - 1), NulByte)

\* the loop of appendFQExpBuffer and printfFQExpBuffer
RECURSIVE FormatLoop(_, _, _)
FormatLoop(s, n, mem) ==
    LET Retry(e) == IF e.ret = 0 THEN e.str ELSE FormatLoop(e.str, n, mem)
        Printed(avail) ==
            IF n >= 0 /\ n < avail - 1
            THEN [s EXCEPT !.data = vsnprintf(@, s.len, avail, n), !.len = @ + n]
            ELSE Retry(enlargeFQExpBuffer(
                           [s EXCEPT !.data = vsnprintf(@, s.len, avail, n)],
                           s.maxlen, mem))
    IN IF s.maxlen > s.len + 16
       THEN Printed(s.maxlen - s.len - 1)
       ELSE Retry(enlargeFQExpBuffer(s, s.maxlen, mem))

appendFQExpBuffer(s, n, mem) ==
    IF FQExpBufferBroken(s) THEN s ELSE FormatLoop(s, n, mem)

printfFQExpBuffer(s, n, mem) ==
    LET Reset(t) == IF FQExpBufferBroken(t) THEN t ELSE FormatLoop(t, n, mem)
    IN Reset(resetFQExpBuffer(s, mem))

appendBinaryFQExpBuffer(s, datalen, mem) ==
    LET Appended(e) ==
            IF e.ret = 0 THEN e.str
            ELSE [e.str EXCEPT
                     !.data = Poke(Write(@, e.str.len, datalen), e.str.len + datalen, NulByte),
                     !.len = @ + datalen]
    IN Appended(enlargeFQExpBuffer(s, datalen, mem))

\* strlen(data) bytes are appended
appendFQExpBufferStr(s, strlen, mem) == appendBinaryFQExpBuffer(s, strlen, mem)

appendFQExpBufferChar(s, mem) ==
    LET Appended(e) ==
            IF e.ret = 0 THEN e.str
            ELSE [e.str EXCEPT
                     !.data = Poke(Poke(@, e.str.len, TextByte), e.str.len + 1, NulByte),
                     !.len = @ + 1]
    IN Appended(enlargeFQExpBuffer(s, 1, mem))

(***************************************************************************)
(* State                                                                   *)
(***************************************************************************)
VARIABLES conn, res, last, ub, str

vars == <<conn, res, last, ub, str>>

PreOf(c) == [trans |-> c.trans, trans_internal |-> c.trans_internal,
             autocommit |-> c.autocommit, in_user_transaction |-> c.in_user_transaction,
             active_tx |-> c.active_tx, db |-> c.db]

NoStmt == Stmt("none", <<>>, <<>>)

\* an explicit COMMIT / ROLLBACK statement reached its handler
ExplicitEndExecuted(stmt, eng) ==
    /\ stmt.type \in {isc_info_sql_stmt_commit, isc_info_sql_stmt_rollback}
    /\ stmt.cols = <<>>
    /\ eng.fail \cap {"alloc", "prepare", "info"} = {}

Call(op, stmt, eng, o) ==
    [op |-> op, stmt |-> stmt, fail |-> eng.fail, nrows |-> Len(eng.rows),
     rows |-> eng.rows,
     pre |-> PreOf(conn), pre_explicit_open |-> last.explicit_open,
     explicit_open |->
        IF op = "FQexec" /\ o.r.resultStatus = FBRES_TRANSACTION_START THEN TRUE
        ELSE IF op \in {"FQexec", "FQexecTransaction"} /\ ExplicitEndExecuted(stmt, eng)
        THEN FALSE
        ELSE last.explicit_open,
     leaked |-> {}, freed |-> <<>>,
     execs |-> IF op = "FQexecPrepared" THEN last.execs + 1 ELSE 0]

NoAnswers == [fail |-> {}, rows |-> <<>>, null_sqlda |-> "error"]

\* FQconnectdbParams: fresh connection, autocommit on, no transaction; db is
\* the attachment handle, 0 when isc_attach_database failed
Init ==
    /\ \E db \in {0, 1} :
          conn = [db |-> db, alive |-> TRUE, trans |-> 0, trans_internal |-> 0,
                  autocommit |-> TRUE, in_user_transaction |-> FALSE,
                  active_tx |-> 0, log |-> <<>>]
    /\ res = NULLRES
    /\ last = [op |-> "FQconnect", stmt |-> NoStmt, fail |-> {}, nrows |-> 0,
               rows |-> <<>>,
               pre |-> [trans |-> 0, trans_internal |-> 0, autocommit |-> TRUE,
                        in_user_transaction |-> FALSE, active_tx |-> 0, db |-> 0],
               pre_explicit_open |-> FALSE, explicit_open |-> FALSE,
               leaked |-> {}, freed |-> <<>>, execs |-> 0]
    /\ ub = FALSE
    /\ str = NULLBUF

Enter == [conn EXCEPT !.log = <<>>]

\* the caller uses a connection that is attached and not yet finished
Usable == ~ub /\ conn.alive /\ conn.db # 0

\* an execute call hands back o = [c, r, ub]
Return(op, call, o) ==
    /\ conn' = o.c
    /\ res' = o.r
    /\ ub' = o.ub
    /\ last' = Call(op, call.stmt, call.eng, o)
    /\ UNCHANGED str

FQexec ==
    /\ Usable
    /\ res = NULLRES
    /\ \E call \in ExecCalls :
         Return("FQexec", call, _FQexec(Enter, "trans", call.stmt, call.eng))

FQexecParams ==
    /\ Usable
    /\ res = NULLRES
    /\ \E call \in ExecParamsCalls :
         Return("FQexecParams", call,
                FQexecParamsCall(Enter, call.stmt, call.paramValues, call.eng))

FQsetAutocommit ==
    /\ Usable
    /\ res = NULLRES
    /\ \E autocommit \in BOOLEAN :
         /\ conn' = [Enter EXCEPT !.autocommit = autocommit]
         /\ last' = Call("FQsetAutocommit", NoStmt, NoAnswers, [r |-> res])
    /\ UNCHANGED <<res, ub, str>>

FQstartTransaction ==
    /\ Usable
    /\ res = NULLRES
    /\ conn' = _FQstartTransaction(Enter, "trans", 3459)
    /\ last' = Call("FQstartTransaction", NoStmt, NoAnswers, [r |-> res])
    /\ UNCHANGED <<res, ub, str>>

FQcommitTransaction ==
    /\ Usable
    /\ res = NULLRES
    /\ conn' = _FQcommitTransaction(Enter, "trans", 3474)
    /\ last' = Call("FQcommitTransaction", NoStmt, NoAnswers, [r |-> res])
    /\ UNCHANGED <<res, ub, str>>

FQrollbackTransaction ==
    /\ Usable
    /\ res = NULLRES
    /\ conn' = _FQrollbackTransaction(Enter, "trans", 3489)
    /\ last' = Call("FQrollbackTransaction", NoStmt, NoAnswers, [r |-> res])
    /\ UNCHANGED <<res, ub, str>>

\* the caller holds one result at a time and clears it before its next call;
\* last.leaked is what the result owned and FQclear did not free, last.freed
\* the descriptor arrays freed over the result's life
FQclear ==
    /\ ~ub
    /\ res # NULLRES
    /\ res' = NULLRES
    /\ conn' = Enter
    /\ last' = [Call("FQclear", NoStmt, NoAnswers, [r |-> res])
                   EXCEPT !.leaked = OwnedByResult(res) \ FQclearFrees(res),
                          !.freed = FQclearFreed(res)]
    /\ ub' \in (IF FQclearFreesUnsetPointer(res) THEN BOOLEAN ELSE {FALSE})
    /\ UNCHANGED str

FQexecTransaction ==
    /\ Usable
    /\ res = NULLRES
    /\ \E call \in ExecTransactionCalls :
         Return("FQexecTransaction", call,
                FQexecTransactionCall(Enter, call.stmt, call.eng))

FQprepareStatement ==
    /\ Usable
    /\ res = NULLRES
    /\ \E call \in PrepareCalls :
         Return("FQprepare", call, FQprepare(Enter, call.stmt, call.eng))

\* the caller executes the statement it prepared, again and again
FQexecPrepared ==
    /\ Usable
    /\ res # NULLRES
    /\ \/ last.op = "FQprepare" /\ res.resultStatus = FBRES_NO_ACTION
       \/ last.op = "FQexecPrepared"
    /\ last.execs < MaxExecs
    /\ \E call \in PreparedExecCalls(last.stmt) :
         Return("FQexecPrepared", call,
                FQexecPreparedCall(Enter, res, call.stmt, call.paramValues, call.eng))

FQdeallocate ==
    /\ Usable
    /\ res # NULLRES
    /\ last.op \in {"FQprepare", "FQexecPrepared"}
    /\ res.stmt_handle # 0
    /\ res' = FQdeallocatePrepared(res)
    /\ conn' = Enter
    /\ last' = Call("FQdeallocatePrepared", NoStmt, NoAnswers, [r |-> res])
    /\ UNCHANGED <<ub, str>>

\* FQfinish(conn) on a live connection, attached or not
FQfinish ==
    /\ ~ub
    /\ conn.alive
    /\ res = NULLRES
    /\ conn' = FQfinishConn(Enter)
    /\ last' = Call("FQfinish", NoStmt, NoAnswers, [r |-> res])
    /\ UNCHANGED <<res, ub, str>>

\* FQfinish(NULL): "if (conn == NULL) return"
FQfinishNull ==
    /\ ~ub
    /\ res = NULLRES
    /\ conn' = Enter
    /\ last' = Call("FQfinish(NULL)", NoStmt, NoAnswers, [r |-> res])
    /\ UNCHANGED <<res, ub, str>>

Next ==
    \/ FQexec
    \/ FQexecParams
    \/ FQsetAutocommit
    \/ FQstartTransaction
    \/ FQcommitTransaction
    \/ FQrollbackTransaction
    \/ FQexecTransaction
    \/ FQprepareStatement
    \/ FQexecPrepared
    \/ FQdeallocate
    \/ FQclear
    \/ FQfinish
    \/ FQfinishNull

Spec == Init /\ [][Next]_vars

(***************************************************************************)
(* The codecs on their own: a parameter text is bound to a scaled-integer  *)
(* slot and the stored integer is formatted again; a raw RDB$DB_KEY is     *)
(* formatted and converted back.  last holds the input and what the steps  *)
(* made of it; the connection takes no part.                               *)
(***************************************************************************)
Signs == {<<>>, <<"-">>}

IntParts == {<<>>, <<"0">>, <<"1">>, <<"1", "2">>, <<"3", "2", "7">>}

FracParts ==
    {f \in {<<>>, <<".", "5">>, <<".", "4">>, <<".", "5", "0">>, <<".", "0", "5">>,
            <<".", "4", "5">>, <<".", "6", "7">>, <<".", "6", "8">>, <<".", "9", "5">>,
            <<".", "9", "9", "5">>, <<".", "0", "0", "5">>, <<".", "0", "0", "4">>,
            <<".", "0", "0", "4", "9">>, <<".", "9", "9", "9", "5">>} :
        Len(f) <= MaxFrac + 1}

\* decimal texts: an optional minus sign, an integer part, a fraction; at
\* least one digit
ParamTexts ==
    {sg \o ip \o fp : sg \in Signs, ip \in IntParts, fp \in FracParts}
        \ {sg \o fp : sg \in Signs, fp \in {<<>>}}

ScaledTypes == {SQL_SHORT, SQL_LONG, SQL_INT64}

Scales == (0 - MaxScale)..0

\* bytes of a raw RDB$DB_KEY: 0x00, 0x0A, 0x9F
KeyBytes == {0, 10, 159}

RawDbKeys == [1..8 -> KeyBytes]

CodecInit ==
    /\ conn = [db |-> 0, alive |-> TRUE, trans |-> 0, trans_internal |-> 0,
               autocommit |-> TRUE, in_user_transaction |-> FALSE,
               active_tx |-> 0, log |-> <<>>]
    /\ res = NULLRES
    /\ ub = FALSE
    /\ str = NULLBUF
    /\ \/ \E dtype \in ScaledTypes, sqlscale \in Scales, text \in ParamTexts :
             last = [op |-> "param", dtype |-> dtype, sqlscale |-> sqlscale,
                     text |-> text]
       \/ \E raw \in RawDbKeys : last = [op |-> "db_key", raw |-> raw]

\* the bind loop stores the parameter text in its slot
BindParam ==
    /\ last.op = "param"
    /\ last' = [op |-> "bound", dtype |-> last.dtype, sqlscale |-> last.sqlscale,
                text |-> last.text,
                stored |-> BindScaledInt(last.dtype, last.sqlscale, last.text)]
    /\ UNCHANGED <<conn, res, ub, str>>

\* the value read back from a column of the same type and scale; writing
\* past the end of the allocation may or may not do harm
FormatDatum ==
    /\ last.op = "bound"
    /\ last' = [op |-> "formatted", dtype |-> last.dtype, sqlscale |-> last.sqlscale,
                text |-> last.text, stored |-> last.stored,
                decoded |-> _FQformatDatum([type |-> last.dtype],
                                           [nullable |-> FALSE, sqlscale |-> last.sqlscale],
                                           [sqlind |-> 0, sqldata |-> last.stored,
                                            snprintf_fails |-> FALSE]).value]
    /\ ub' \in (IF FormatOverruns(last.dtype, last.sqlscale,
                                  [sqlind |-> 0, sqldata |-> last.stored,
                                   snprintf_fails |-> FALSE])
                THEN BOOLEAN ELSE {FALSE})
    /\ UNCHANGED <<conn, res, str>>

ParseDbKey ==
    /\ last.op = "db_key"
    /\ last' = [op |-> "parsed", raw |-> last.raw, hex |-> _FQparseDbKey(last.raw)]
    /\ UNCHANGED <<conn, res, ub, str>>

\* the text is converted back as for a parameter passed with format -1
DeparseDbKey ==
    /\ last.op = "parsed"
    /\ last' = [op |-> "deparsed", raw |-> last.raw, hex |-> last.hex,
                sqldata |-> DbKeyParam(_FQdeparseDbKey(last.hex))]
    /\ UNCHANGED <<conn, res, ub, str>>

CodecNext ==
    \/ BindParam
    \/ FormatDatum
    \/ ParseDbKey
    \/ DeparseDbKey

CodecSpec == CodecInit /\ [][CodecNext]_vars

(***************************************************************************)
(* The string buffer on its own: one FQExpBufferData and the operations    *)
(* on it.  last names the operation and holds the buffer as it found it.   *)
(***************************************************************************)
\* what the allocator grants at the time of a call
MemGrants == {0, INITIAL_EXPBUFFER_SIZE, MaxAlloc}

\* lengths of the texts and data appended; -1: vsnprintf reports an error
DataLens == {0, 255, 300, 600}

FormatLens == DataLens \cup {0 - 1}

\* enlarge requests, with a "ridiculous" one
NeededSizes == DataLens \cup {INT_MAX}

BufferInit ==
    /\ conn = [db |-> 0, alive |-> TRUE, trans |-> 0, trans_internal |-> 0,
               autocommit |-> TRUE, in_user_transaction |-> FALSE,
               active_tx |-> 0, log |-> <<>>]
    /\ res = NULLRES
    /\ ub = FALSE
    /\ \E mem \in MemGrants :
          /\ str = initFQExpBuffer(mem)
          /\ last = [op |-> "initFQExpBuffer", pre |-> NULLBUF, n |-> 0]

BufferOp(op, after) ==
    /\ last.n < MaxOps
    /\ str' = after
    /\ last' = [op |-> op, pre |-> str, n |-> last.n + 1]
    /\ UNCHANGED <<conn, res, ub>>

ResetBuffer ==
    \E mem \in MemGrants : BufferOp("resetFQExpBuffer", resetFQExpBuffer(str, mem))

EnlargeBuffer ==
    \E mem \in MemGrants, needed \in NeededSizes :
        BufferOp("enlargeFQExpBuffer", enlargeFQExpBuffer(str, needed, mem).str)

PrintfBuffer ==
    \E mem \in MemGrants, n \in FormatLens :
        BufferOp("printfFQExpBuffer", printfFQExpBuffer(str, n, mem))

AppendBuffer ==
    \E mem \in MemGrants, n \in FormatLens :
        BufferOp("appendFQExpBuffer", appendFQExpBuffer(str, n, mem))

AppendBufferStr ==
    \E mem \in MemGrants, n \in DataLens :
        BufferOp("appendFQExpBufferStr", appendFQExpBufferStr(str, n, mem))

AppendBufferChar ==
    \E mem \in MemGrants :
        BufferOp("appendFQExpBufferChar", appendFQExpBufferChar(str, mem))

AppendBufferBinary ==
    \E mem \in MemGrants, n \in DataLens :
        BufferOp("appendBinaryFQExpBuffer", appendBinaryFQExpBuffer(str, n, mem))

BufferNext ==
    \/ ResetBuffer
    \/ EnlargeBuffer
    \/ PrintfBuffer
    \/ AppendBuffer
    \/ AppendBufferStr
    \/ AppendBufferChar
    \/ AppendBufferBinary

BufferSpec == BufferInit /\ [][BufferNext]_vars

(***************************************************************************)
(* Properties.  last describes the most recent call: its statement, the    *)
(* engine's answers and the connection as the call found it; conn.log is   *)
(* the list of transaction primitives that call issued.                    *)
(***************************************************************************)
\* the most recent call was an execute call and it returned
ExecReturned == last.op \in {"FQexec", "FQexecParams"} /\ ~ub

FQexecReturned == last.op = "FQexec" /\ ~ub

LogEntries == {conn.log[i] : i \in 1..Len(conn.log)}

\* call sites that commit or roll back only when autocommit governs
PolicyLines == {1367, 1436, 1465, 1481, 2259, 2272, 2311, 2366, 2426}

\* the engine accepted every primitive and the column types are handled
FetchLoopCompleted ==
    /\ last.stmt.cols # <<>>
    /\ ~HasUnhandled(last.stmt.cols)
    /\ last.fail = {}

\* C1: FQexec of a row-returning statement entered with autocommit on, the
\* explicit-transaction flag clear and no default transaction: when prepare,
\* describe, execute and every fetch succeed, the implicitly started
\* transaction is committed after the fetch loop, the default transaction
\* handle is unset on return and FQisActiveTransaction() is false.
C1_Case ==
    /\ FQexecReturned
    /\ FetchLoopCompleted
    /\ last.pre.autocommit
    /\ ~last.pre.in_user_transaction
    /\ last.pre.trans = 0

C2_Case ==
    /\ ExecReturned
    /\ last.pre_explicit_open
    /\ last.explicit_open

C2_NoAutocommitInsideExplicit ==
    C2_Case =>
        /\ FQisActiveTransaction(conn) = TRUE
        /\ \A e \in LogEntries :
              /\ e.line \notin PolicyLines
              /\ e.line = 1336 => last.pre.trans = 0

C2_Witness ==
    /\ C2_Case
    /\ last.pre.autocommit
    /\ last.stmt.type = isc_info_sql_stmt_insert
    /\ last.fail = {}
    /\ FQresultStatus(res) = FBRES_COMMAND_OK
    /\ conn.trans # 0

\* C3: with autocommit on and the explicit-transaction flag clear, an engine
\* failure at prepare, describe, execute or fetch during FQexec or
\* FQexecParams returns status fatal-error with the transaction rolled back:
\* the default transaction handle is unset on return.
C3_Case ==
    /\ ExecReturned
    /\ last.pre.autocommit
    /\ ~last.pre.in_user_transaction
    /\ last.fail \cap {"prepare", "describe", "execute", "fetch"} # {}

C3_FailureRollsBack ==
    C3_Case =>
        /\ FQresultStatus(res) = FBRES_FATAL_ERROR
        /\ conn.trans = 0

\* C4: a redundant transaction-control statement given to FQexec (a start
\* while the default transaction is active, a COMMIT or ROLLBACK while none
\* is) is rejected as non-fatal: the status is not fatal-error, no engine
\* start / commit / rollback is issued, and the default transaction handle
\* and the explicit-transaction flag are the same after the call as before.
C4_Redundant ==
    /\ FQexecReturned
    /\ last.fail = {}
    /\ last.stmt.cols = <<>>
    /\ \/ last.stmt.type = isc_info_sql_stmt_start_trans /\ last.pre.trans # 0
       \/ /\ last.stmt.type \in {isc_info_sql_stmt_commit, isc_info_sql_stmt_rollback}
          /\ last.pre.trans = 0

C5_Case ==
    /\ FQexecReturned
    /\ last.fail = {}
    /\ last.stmt.cols = <<>>
    /\ last.stmt.type \in {isc_info_sql_stmt_commit, isc_info_sql_stmt_rollback}
    /\ last.pre.trans # 0

C6_Case ==
    /\ FQexecReturned
    /\ last.fail = {}
    /\ last.stmt.cols = <<>>
    /\ last.stmt.type = isc_info_sql_stmt_start_trans
    /\ last.pre.trans = 0

C7_Case ==
    /\ FQexecReturned
    /\ last.fail = {}
    /\ last.stmt.cols = <<>>
    /\ last.stmt.type = isc_info_sql_stmt_ddl

C8_StatementHandleReleased ==
    ExecReturned => res.stmt_handle = 0

\* the address reached from ptr after i steps along the next links
RECURSIVE NthTuple(_, _, _)
NthTuple(heap, ptr, i) == IF i = 0 THEN ptr ELSE NthTuple(heap, heap[ptr].next, i - 1)

\* the text a cell of table row v decodes to
DecodedRow(cols, v) ==
    [i \in 1..Len(cols) |->
        _FQformatDatum([type |-> cols[i].sqltype], XSqlVar(cols[i]), RowOf(cols, v)[i])]

\* C9: when the engine yields N rows (N >= 0) to the fetch loop and then
\* signals no-more-rows, the result has status tuples-ok, row count N, a
\* tuple array of N entries in fetch order, and for every i in 0..N-1 the
\* tuple at index i has position i and is the i-th element of the list that
\* starts at tuple_first.
C9_Case ==
    /\ ExecReturned
    /\ last.stmt.type = isc_info_sql_stmt_select
    /\ FetchLoopCompleted

C9_FetchLoopResult ==
    C9_Case =>
        /\ FQresultStatus(res) = FBRES_TUPLES_OK
        /\ FQntuples(res) = last.nrows
        /\ Len(res.tuples) = last.nrows
        /\ \A i \in 0..(last.nrows - 1) :
              /\ res.tuples[i + 1] = NthTuple(res.heap, res.tuple_first, i)
              /\ TupleAt(res, i).position = i
              /\ TupleAt(res, i).values = DecodedRow(last.stmt.cols, i + 1)

C9_Witness == C9_Case /\ last.nrows = MaxRows /\ FQntuples(res) = MaxRows

\* C10: for every cell (r, c) of every result with status tuples-ok,
\* FQgetisnull(res, r, c) is 1 if and only if FQgetvalue(res, r, c) is NULL.
C10_NullIffNoValue ==
    (ExecReturned /\ FQresultStatus(res) = FBRES_TUPLES_OK) =>
        \A r \in 0..(FQntuples(res) - 1) : \A c \in 0..(FQnfields(res) - 1) :
            (FQgetisnull(res, r, c) = 1) <=> (FQgetvalue(res, r, c) = NULLPTR)

\* a result holding a NULL cell and a cell whose formatting failed
C10_Witness ==
    /\ ExecReturned
    /\ FQresultStatus(res) = FBRES_TUPLES_OK
    /\ \E r \in 0..(FQntuples(res) - 1) : \E c \in 0..(FQnfields(res) - 1) :
          FQgetisnull(res, r, c) = 1 /\ FQgetvalue(res, r, c) = NULLPTR
    /\ \E r \in 0..(FQntuples(res) - 1) : \E c \in 0..(FQnfields(res) - 1) :
          FQgetisnull(res, r, c) = 0 /\ FQgetvalue(res, r, c) = Str(ErrorFormattingText)

(***************************************************************************)
(* Bounds checking of the accessors                                        *)
(***************************************************************************)
\* row and column numbers a caller may pass, in and out of range
Indexes == (0 - 1)..(MaxRows + 1)

RowOutside(r, row_number) == ~(row_number \in 0..(FQntuples(r) - 1))
ColOutside(r, column_number) == ~(column_number \in 0..(FQnfields(r) - 1))

\* C11: for every result the caller can hold (NULL, error results with counts
\* -1, zero rows, rows) and every row or column number out of range, each
\* accessor returns its sentinel: NULL, -1, SQL_INVALID_TYPE, false or 1.
C11_OutOfRangeSentinels ==
    \A row \in Indexes, col \in Indexes :
        /\ (RowOutside(res, row) \/ ColOutside(res, col)) =>
              /\ FQgetvalue(res, row, col) = NULLPTR
              /\ FQgetlength(res, row, col) = -1
              /\ FQgetdsplen(res, row, col) = -1
              /\ FQgetisnull(res, row, col) = 1
        /\ ColOutside(res, col) =>
              /\ FQfname(res, col) = NULLPTR
              /\ FQfformat(res, col) = -1
              /\ FQfmaxwidth(res, col) = -1
              /\ FQftype(res, col) = SQL_INVALID_TYPE
              /\ FQfhasNull(res, col) = FALSE

\* a result with two rows: row 1 is readable, row 2 is one past the end
C11_Witness ==
    /\ ExecReturned
    /\ FQntuples(res) = 2
    /\ FQnfields(res) = MaxCols
    /\ ~FQgetvalue(res, 1, 0).null
    /\ FQgetvalue(res, 2, 0) = NULLPTR
    /\ FQgetlength(res, 1, MaxCols) = -1
    /\ FQftype(res, MaxCols) = SQL_INVALID_TYPE

(***************************************************************************)
(* Release of a result                                                     *)
(***************************************************************************)
\* C12: after FQclear on a result of an execute call nothing the result
\* owned remains allocated (descriptors with their names, tuples with their
\* values, the tuple array, error message, diagnostic fields, the object).
C12_ClearFreesEverything ==
    last.op = "FQclear" => last.leaked = {}

NoDuplicates(seq) == \A i, j \in DOMAIN seq : i # j => seq[i] # seq[j]

\* C13: over an execute call and one FQclear each descriptor array is freed
\* at most once; an array released by internal cleanup is recorded as NULL
\* and running internal cleanup again on the returned result changes nothing.
C13_DescriptorArraysFreedOnce ==
    /\ last.op = "FQclear" => NoDuplicates(last.freed)
    /\ (ExecReturned /\ res # NULLRES) =>
          /\ NoDuplicates(res.freed)
          /\ \A which \in {"sqlda_in", "sqlda_out"} :
                \/ res[which].null
                \/ \A k \in DOMAIN res.freed : res.freed[k] # res[which].addr
          /\ _FQexecClearResult(_FQexecClearResult(res)) = _FQexecClearResult(res)

\* FQclear after an execute call whose internal cleanup had released both
\* arrays of a parameterised statement
C13_Witness ==
    /\ last.op = "FQclear"
    /\ Len(last.freed) >= 2
    /\ NoDuplicates(last.freed)
    /\ last.pre.trans = 0

(***************************************************************************)
(* Unhandled type codes and describe failures                              *)
(***************************************************************************)
\* an execute call was made, whether it returned or not
ExecCalled == last.op \in {"FQexec", "FQexecParams"}

\* the primitives issued for the statement of the last execute call
Issued == {res.issued[k] : k \in DOMAIN res.issued}

\* the call reached the type switch over a slot of an unhandled type
C14_Case ==
    /\ ExecCalled
    /\ last.fail \cap {"alloc", "prepare", "info", "describe_bind", "describe", "describe2"} = {}
    /\ \/ HasUnhandled(last.stmt.cols)
       \/ last.op = "FQexecParams" /\ HasUnhandled(last.stmt.params)

\* C14: a parameter slot or output column of an unhandled type aborts the
\* execute call at that point: the call returns a fatal-error result, has
\* issued no execute and no fetch, and does not use the released arrays.
C14_UnhandledTypeAborts ==
    C14_Case =>
        /\ ~ub
        /\ FQresultStatus(res) = FBRES_FATAL_ERROR
        /\ Issued \cap {"execute", "fetch"} = {}

\* the output describe (first or re-issued) reported an error
C15_Case ==
    /\ ExecCalled
    /\ last.fail \cap {"describe", "describe2"} # {}

\* C15: when the describe of the output array fails in FQexec or
\* FQexecParams the call returns a fatal-error result holding the engine's
\* diagnostic text and has issued neither execute nor fetch.
C15_DescribeFailureIsFatal ==
    C15_Case =>
        /\ ~ub
        /\ FQresultStatus(res) = FBRES_FATAL_ERROR
        /\ res.errMsg = 1
        /\ \E k \in DOMAIN res.errFields : res.errFields[k] = "FB_DIAG_MESSAGE_PRIMARY"
        /\ Issued \cap {"execute", "fetch"} = {}

(***************************************************************************)
(* FQfinish                                                                *)
(***************************************************************************)
\* what FQfinish is expected to put on the log for a connection found as pre
FinishSteps(pre) ==
    (IF pre.trans # 0 THEN <<LogEntry("rollback", "trans", 3489, TRUE)>> ELSE <<>>)
    \o (IF pre.db # 0 THEN <<LogEntry("detach", "db", 478, TRUE)>> ELSE <<>>)
    \o <<LogEntry("free", "conn", 504, TRUE)>>

\* C16: FQfinish on a connection rolls back the default transaction (only
\* if one is active), then detaches (only if attached), then frees the
\* buffers and the object, with no engine call after the detach;
\* FQfinish(NULL) does nothing.
C16_FinishOrder ==
    /\ last.op = "FQfinish" =>
          /\ conn.log = FinishSteps(last.pre)
          /\ ~conn.alive
          /\ conn.trans = 0
          /\ conn.db = 0
    /\ last.op = "FQfinish(NULL)" =>
          /\ conn.log = <<>>
          /\ PreOf(conn) = last.pre

\* FQfinish found an attached connection with an open default transaction
C16_Witness ==
    /\ last.op = "FQfinish"
    /\ last.pre.trans # 0
    /\ last.pre.db # 0
    /\ Len(conn.log) = 3

(***************************************************************************)
(* Internal transaction                                                    *)
(***************************************************************************)
\* C17: an operation that runs on the internal transaction handle leaves
\* the caller's transaction state as it found it: the default transaction
\* handle and the explicit-transaction flag are unchanged by the call.
C17_InternalLeavesCallerState ==
    (last.op = "FQexecTransaction" /\ ~ub) =>
        /\ conn.trans = last.pre.trans
        /\ conn.in_user_transaction = last.pre.in_user_transaction

(***************************************************************************)
(* Codecs (under CodecSpec)                                                *)
(***************************************************************************)
RECURSIVE DigitsValue(_)
DigitsValue(d) ==
    IF d = <<>> THEN 0
    ELSE DigitsValue(SubSeq(d, 1, Len(d) - 1)) * 10 + DigitVal(d[Len(d)])

IsNegativeText(t) == t # <<>> /\ t[1] = "-"

\* the number a decimal text denotes, in units of 10^-MaxFrac
DecimalValue(t) ==
    LET body == IF IsNegativeText(t) THEN Tail(t) ELSE t
        dot == IF \E i \in 1..Len(body) : body[i] = "."
               THEN CHOOSE i \in 1..Len(body) : body[i] = "."
               ELSE Len(body) + 1
        ip == SubSeq(body, 1, dot - 1)
        fp == SubSeq(body, dot + 1, Len(body))
        mag == DigitsValue(ip) * Pow10(MaxFrac) + DigitsValue(fp) * Pow10(MaxFrac - Len(fp))
    IN IF IsNegativeText(t) THEN 0 - mag ELSE mag

\* 10^-MaxFrac units in one unit of the scale s
UnitOf(s) == Pow10(MaxFrac + s)

Abs(v) == IF v < 0 THEN 0 - v ELSE v

\* the integer at scale s nearest to the value of t, the digit after the
\* scale deciding (5 and more rounds the magnitude up)
HalfUp(t, s) ==
    LET mag == Abs(DecimalValue(t))
        keep == mag \div UnitOf(s)
        digit == ((mag % UnitOf(s)) * 10) \div UnitOf(s)
        rounded == IF digit >= 5 THEN keep + 1 ELSE keep
    IN IF IsNegativeText(t) THEN 0 - rounded ELSE rounded

FitsIn(dtype, v) == dtype = SQL_SHORT => v \in (0 - 32768)..32767

Representable(t, s, dtype) ==
    /\ DecimalValue(t) % UnitOf(s) = 0
    /\ FitsIn(dtype, HalfUp(t, s))

HasPoint(t) == \E i \in 1..Len(t) : t[i] = "."

\* C18: for a scaled-integer slot with scale s <= 0 and a decimal text
\* whose value is representable at scale s in the slot's width, binding the
\* text and formatting the stored integer at the same type and scale gives
\* a complete text with the same numeric value; appending a zero to the
\* fraction ("1.5" and "1.50" at scale -2) does not change the stored
\* integer.
C18_ScaledIntRoundTrip ==
    (last.op = "formatted" /\ Representable(last.text, last.sqlscale, last.dtype)) =>
        /\ ~ub
        /\ ~last.decoded.null
        /\ DecimalValue(last.decoded.s) = DecimalValue(last.text)
        /\ (HasPoint(last.text) /\ last.sqlscale < 0) =>
               BindScaledInt(last.dtype, last.sqlscale, last.text \o <<"0">>) = last.stored

\* C19: the binder rounds half-up on the first digit beyond the scale,
\* carrying into the integer part, and the stored integer never has the
\* opposite sign to the text: a text with a minus sign is stored as a value
\* <= 0 at every scale, scale 0 included.
C19_HalfUpKeepsSign ==
    (last.op = "bound" /\ FitsIn(last.dtype, HalfUp(last.text, last.sqlscale))) =>
        /\ last.stored = HalfUp(last.text, last.sqlscale)
        /\ IsNegativeText(last.text) => last.stored <= 0
        /\ ~IsNegativeText(last.text) => last.stored >= 0

\* C20: for every 8-byte sequence raw, _FQparseDbKey(raw) is 16 chars drawn
\* from 0-9A-F, and the first 8 bytes of
\* _FQdeparseDbKey(_FQparseDbKey(raw)) equal raw.
C20_DbKeyRoundTrip ==
    /\ last.op \in {"parsed", "deparsed"} =>
          /\ Len(last.hex) = FB_DB_KEY_LEN
          /\ \A i \in 1..Len(last.hex) : IsHex(last.hex[i])
    /\ last.op = "deparsed" => last.sqldata = last.raw

\* a key with a 0x00 byte and a byte >= 0x80 went through both conversions
C20_Witness ==
    /\ last.op = "deparsed"
    /\ \E i, j \in 1..8 : last.raw[i] = 0 /\ last.raw[j] >= 128

(***************************************************************************)
(* Statements with output values, descriptor negotiation, storage          *)
(***************************************************************************)
\* the text the cells of an engine row decode to
DecodedCells(cols, row) ==
    [i \in 1..Len(cols) |->
        _FQformatDatum([type |-> cols[i].sqltype], XSqlVar(cols[i]), row[i])]

\* C21: FQexecParams on a statement the engine classifies as exec-procedure
\* with k >= 1 output columns, every engine call succeeding, returns status
\* tuples-ok, row count 1, column count k and one tuple holding the decoded
\* output values (the integer 42 in a scale-0 column reads "42").
C21_Case ==
    /\ last.op = "FQexecParams"
    /\ ~ub
    /\ last.stmt.type = isc_info_sql_stmt_exec_procedure
    /\ Len(last.stmt.cols) >= 1
    /\ ~HasUnhandled(last.stmt.cols)
    /\ ~HasUnhandled(last.stmt.params)
    /\ last.fail = {}

C21_ReturningGivesOneRow ==
    C21_Case =>
        /\ FQresultStatus(res) = FBRES_TUPLES_OK
        /\ FQntuples(res) = 1
        /\ FQnfields(res) = Len(last.stmt.cols)
        /\ Len(res.tuples) = 1
        /\ res.tuples[1] = res.tuple_first
        /\ TupleAt(res, 0).values = DecodedCells(last.stmt.cols, last.rows[1])
        /\ \A j \in 0..(Len(last.stmt.cols) - 1) :
              /\ (FQgetisnull(res, 0, j) = 1) = (last.rows[1][j + 1].sqlind < 0
                                                  /\ last.stmt.cols[j + 1].nullable)
              /\ (last.stmt.cols[j + 1].sqltype = SQL_LONG
                  /\ last.rows[1][j + 1].sqldata = 42
                  /\ last.rows[1][j + 1].sqlind = 0) =>
                     FQgetvalue(res, 0, j) = Str(<<"4", "2">>)

C21_Witness ==
    /\ C21_Case
    /\ \E j \in 0..(FQnfields(res) - 1) : FQgetvalue(res, 0, j) = Str(<<"4", "2">>)

\* the output arrays freed during the call, oldest first
ReleasedOut == SelectSeq(res.released, LAMBDA e : e.which = "sqlda_out")

\* the output array the call ended with: still attached, or the last one freed
FinalOut ==
    IF ~res.sqlda_out.null THEN [sqln |-> res.sqlda_out.sqln, sqld |-> res.sqlda_out.sqld]
    ELSE [sqln |-> ReleasedOut[Len(ReleasedOut)].sqln,
          sqld |-> ReleasedOut[Len(ReleasedOut)].sqld]

\* the output arrays allocated by the FQexec call (FQexec has no input array)
OutAllocated == res.brk - 1

Describes == Len(SelectSeq(res.issued, LAMBDA step : step = "describe"))

\* FQexec described the output columns of its statement
C23_Case ==
    /\ last.op = "FQexec"
    /\ res # NULLRES
    /\ ~ub
    /\ "describe" \in Issued
    /\ "describe" \notin last.fail

\* C23: in FQexec a statement of at most FB_XSQLDA_INITLEN columns keeps the
\* output descriptor array it was given; one of n > FB_XSQLDA_INITLEN columns
\* has the array reallocated exactly once, with exactly n slots, and
\* described again, and after that describe the result's column count and
\* the array's described count are both n.
C23_OutputArrayNegotiation ==
    C23_Case =>
        IF Len(last.stmt.cols) <= FB_XSQLDA_INITLEN
        THEN /\ OutAllocated = 1
             /\ Describes = 1
             /\ FinalOut.sqln = FB_XSQLDA_INITLEN
        ELSE /\ OutAllocated = 2
             /\ Describes = 2
             /\ ReleasedOut[1].sqln = FB_XSQLDA_INITLEN
             /\ FinalOut.sqln = Len(last.stmt.cols)
             /\ "describe2" \notin last.fail =>
                   /\ FQnfields(res) = Len(last.stmt.cols)
                   /\ FinalOut.sqld = Len(last.stmt.cols)

C23_Witness ==
    /\ C23_Case
    /\ Len(last.stmt.cols) > FB_XSQLDA_INITLEN
    /\ FQresultStatus(res) = FBRES_TUPLES_OK
    /\ FQnfields(res) = Len(last.stmt.cols)
    /\ FinalOut.sqln = Len(last.stmt.cols)

\* C24: when FQexec or FQexecParams returns a result, the data buffer and the
\* null indicator of every output column and of every bound parameter have
\* been freed, and both descriptor arrays are released (the pointers NULL).
C24_NativeBuffersReleased ==
    (ExecCalled /\ res # NULLRES /\ ~ub) =>
        /\ res.sqlda_in.null
        /\ res.sqlda_out.null
        /\ \A k \in DOMAIN res.released : res.released[k].held = {}

\* C28: whenever an execute call returns tuples-ok with column count n > 0,
\* the descriptor of every column 0 .. n-1 has been built, so FQfname, FQftype,
\* FQfhasNull and FQfmaxwidth read an initialised descriptor, also when the
\* statement produced zero rows.
C28_HeaderBuiltForEveryColumn ==
    (ExecReturned /\ res # NULLRES /\ FQresultStatus(res) = FBRES_TUPLES_OK
                  /\ FQnfields(res) > 0) =>
        \A column_number \in 0..(FQnfields(res) - 1) :
            /\ (column_number + 1) \in DOMAIN res.header
            /\ FQftype(res, column_number) # GarbageDesc.type
            /\ FQfname(res, column_number) = NameOf(res.header[column_number + 1])
            /\ FQfhasNull(res, column_number) \in BOOLEAN

\* C29: a result made by FQprepare can be executed with FQexecPrepared any
\* number of times: after each FQexecPrepared, rows or not, success or
\* execute failure, the statement handle is still allocated and the input
\* and output descriptor arrays are allocated.
C29_PreparedStaysExecutable ==
    (last.op = "FQexecPrepared" /\ ~ub /\ last.execs = 1) =>
        /\ res.stmt_handle # 0
        /\ ~res.sqlda_in.null
        /\ ~res.sqlda_out.null

(***************************************************************************)
(* Explicit transactions and the calls around them                         *)
(***************************************************************************)
\* C25: in every state reached by public calls the explicit-transaction flag
\* is set only while the default transaction handle is set:
\* FQisActiveTransaction is never true with no default transaction active.
C25_FlagOnlyWithDefaultHandle ==
    (conn.alive /\ ~ub) => (FQisActiveTransaction(conn) => Handle(conn, "trans") # 0)

StatementSteps == {"prepare", "info", "describe_bind", "describe", "describe2",
                   "execute", "fetch"}

\* a data statement failed at one of its steps, or FQprepare rejected the
\* statement as not DML, while an explicit transaction was in force
C26_Case ==
    /\ ExecCalled
    /\ res # NULLRES
    /\ ~ub
    /\ last.pre.in_user_transaction
    /\ last.pre.trans # 0
    /\ FQresultStatus(res) = FBRES_FATAL_ERROR
    /\ ~HasUnhandled(last.stmt.cols)
    /\ ~HasUnhandled(last.stmt.params)
    /\ \/ last.stmt.type \notin ControlTypes /\ last.fail \cap StatementSteps # {}
       \/ last.op = "FQexecParams" /\ last.stmt.type \in ControlTypes
                                   /\ last.fail \cap {"prepare", "info"} = {}

\* C26: a statement that fails while an explicit transaction is in force
\* does not end that transaction: the default handle is still set on return.
C26_FailureKeepsExplicitTransaction ==
    C26_Case => Handle(conn, "trans") # 0

\* a data statement ran to success with autocommit off
C27_Success ==
    /\ ExecReturned
    /\ res # NULLRES
    /\ last.stmt.type \in DMLTypes
    /\ ~last.pre.autocommit
    /\ FQresultStatus(res) \in {FBRES_COMMAND_OK, FBRES_TUPLES_OK}

\* ... as the first one, no default transaction being active
C27_First == C27_Success /\ last.pre.trans = 0

\* ... as a later one, inside the transaction started that way
C27_Later == C27_Success /\ last.pre.trans # 0 /\ last.pre.in_user_transaction

C30_InternalHandleUnsetOnReturn ==
    (last.op = "FQexecTransaction" /\ ~ub) => Handle(conn, "trans_internal") = 0

(***************************************************************************)
(* String buffer (under BufferSpec)                                        *)
(***************************************************************************)
IsBrokenBuffer(s) == s.len = 0 /\ s.maxlen = 0 /\ s.data = oom_buffer

IsValidBuffer(s) ==
    /\ ~s.data.static
    /\ s.maxlen > s.len
    /\ Len(s.data.bytes) = s.maxlen
    /\ s.data.bytes[s.len + 1] = NulByte

AppendOps == {"enlargeFQExpBuffer", "appendFQExpBuffer", "appendFQExpBufferStr",
              "appendFQExpBufferChar", "appendBinaryFQExpBuffer"}

\* C22: after any sequence of init, reset, enlarge, append and printf
\* operations the buffer is either broken (len = maxlen = 0, data the shared
\* empty string) or has maxlen > len and a NUL at data[len]; on a broken
\* buffer every append and enlarge leaves it broken and unchanged, and
\* reset and printf leave it broken or valid and empty.
C22_BufferInvariant ==
    /\ IsBrokenBuffer(str) \/ IsValidBuffer(str)
    /\ (last.pre # NULLBUF /\ IsBrokenBuffer(last.pre)) =>
          /\ last.op \in AppendOps => str = last.pre
          /\ last.op = "resetFQExpBuffer" =>
                IsBrokenBuffer(str) \/ (IsValidBuffer(str) /\ str.len = 0)

\* printf found the buffer broken, reset it and grew it for a long text
C22_Witness ==
    /\ last.op = "printfFQExpBuffer"
    /\ last.pre # NULLBUF
    /\ IsBrokenBuffer(last.pre)
    /\ IsValidBuffer(str)
    /\ str.maxlen > INITIAL_EXPBUFFER_SIZE
    /\ str.len > INITIAL_EXPBUFFER_SIZE

====
